---------------------------- MODULE Spec2Model ----------------------------
(***************************************************************************)
(* Creator onboarding of access-hub: the six-step sequencer                *)
(* (CreatorOnboarding.tsx) under the dashboard route (CreatorDashboard.tsx)*)
(* and the step components that persist step data, as state machines over  *)
(* the hosted tables (the migration that creates them) and the object      *)
(* storage.  Every call to the hosted backend is asynchronous: a handler   *)
(* issues a request, the request is served at some later point and may     *)
(* fail, and requests in flight are served in any order.                   *)
(***************************************************************************)
EXTENDS Integers, FiniteSets, Sequences, Bags, TLC

(* ------------------------------ bounds -------------------------------- *)

\* Requests of the sequencer that may be in flight at once.
MaxInflight == 2

\* Requests of Step2Specialization that may be in flight at once.
MaxSkillCalls == 2

\* Files the creator picks over a run, files picked in one selection, and
\* handlers of Step3Portfolio that may be running at once.
MaxFiles == 3
MaxBatch == 2
MaxPortfolioJobs == 2

\* Saves of Step6Banking that may be running at once.
MaxBankCalls == 2

\* Upserts of Step5Availability that may be in flight at once.
MaxAvailCalls == 2

\* Calls of Step1Profile that may be in flight at once.
MaxFieldCalls == 2

\* Calls of Step4Pricing that may be in flight at once.
MaxPriceCalls == 2

\* How far below 0 and above the last step a hand-edited onboarding_step lies.
StepSpread == 2

(* --------------------------- program constants ------------------------- *)

\* STEPS.length: the last step of the sequencer.
LastStep == 6

\* DEFAULT 1 of creator_profiles.onboarding_step.
DefaultStep == 1

\* A state creatorId that holds null.
NoId == 0

\* Browser sessions (tabs) of the one creator identity signed in.
Sessions == {"s1", "s2"}

User == "u1"

\* creatorProfile = null.
Null == [id |-> NoId]

VARIABLES
    creator_profiles,   \* rows of public.creator_profiles
    isLoadingProfile,   \* CreatorDashboard state, per session
    creatorProfile,     \* CreatorDashboard state: the fetched row (the fields
                        \* read after the sequencer has mounted) or Null
    currentStep,        \* CreatorOnboarding state
    creatorId,          \* CreatorOnboarding state: a row id or NoId
    isSubmitting,       \* CreatorOnboarding state
    requests,           \* bag of requests to creator_profiles in flight
    creator_specializations,  \* rows of public.creator_specializations
    selectedSkills,     \* Step2Specialization state, per session
    skillRequests,      \* bag of requests to creator_specializations in flight
    creator_portfolio,  \* rows of public.creator_portfolio
    storage,            \* object paths held by the bucket creator-portfolio
    portfolio,          \* Step3Portfolio state, per session
    isUploading,        \* Step3Portfolio state
    portfolioJobs,      \* bag of Step3Portfolio handlers waiting on a call
    uploads,            \* file names generated so far
    creator_banking,    \* rows of public.creator_banking
    formData,           \* Step6Banking state, per session
    isSaving,           \* Step6Banking state
    bankRequests,       \* bag of requests to creator_banking in flight
    creator_availability,  \* rows of public.creator_availability
    availability,       \* Step5Availability state, per session
    availRequests,      \* bag of requests to creator_availability in flight
    auth,               \* what useAuth() gives: isLoading, user, userRole
    location,           \* the dashboard component mounted, or the path shown
    navigated,          \* the path the latest step has passed to navigate()
    creator_profile_fields,  \* the columns of the creator's row that
                        \* Step1Profile edits
    profileFormData,    \* Step1Profile state formData, per session
    fieldRequests,      \* bag of calls of Step1Profile in flight
    creator_pricing,    \* rows of public.creator_pricing
    packages,           \* Step4Pricing state, per session
    priceRequests,      \* bag of handlers of Step4Pricing waiting on a call
    priced,             \* ids gen_random_uuid() has given to pricing rows
    isAdminLoggedIn,    \* AdminAuthProvider state
    adminSession,       \* the item "adminSession" of the tab's sessionStorage
    loginError,         \* AdminLogin state error
    user_roles,         \* rows of public.user_roles
    toast               \* the notification the latest step has shown, if any

\* The sequencer and the dashboard route.
seqVars == <<creator_profiles, isLoadingProfile, creatorProfile, currentStep,
             creatorId, isSubmitting, requests>>

\* Step2Specialization.
skillVars == <<creator_specializations, selectedSkills, skillRequests>>

\* Step3Portfolio.
portfolioVars == <<creator_portfolio, storage, portfolio, isUploading,
                   portfolioJobs, uploads>>

\* Step6Banking.
bankVars == <<creator_banking, formData, isSaving, bankRequests>>

\* Step5Availability.
availVars == <<creator_availability, availability, availRequests>>

\* The guard of the dashboard routes.
routeVars == <<auth, location, navigated>>

\* Step1Profile.
profileVars == <<creator_profile_fields, profileFormData, fieldRequests>>

\* Step4Pricing.
pricingVars == <<creator_pricing, packages, priceRequests, priced>>

\* The admin entry point.
adminVars == <<isAdminLoggedIn, adminSession, loginError>>

\* The roles the row-level policies test.
policyVars == <<user_roles>>

\* All that lies outside the sequencer.
stepVars == <<skillVars, portfolioVars, bankVars, availVars, routeVars,
              profileVars, pricingVars, adminVars, policyVars>>

\* The same, but one step component.
stepsButSkills == <<portfolioVars, bankVars, availVars, routeVars, profileVars, pricingVars, adminVars, policyVars>>
stepsButPortfolio == <<skillVars, bankVars, availVars, routeVars, profileVars, pricingVars, adminVars, policyVars>>
stepsButBanking == <<skillVars, portfolioVars, availVars, routeVars, profileVars, pricingVars, adminVars, policyVars>>
stepsButAvailability == <<skillVars, portfolioVars, bankVars, routeVars, profileVars, pricingVars, adminVars, policyVars>>
stepsButProfile == <<skillVars, portfolioVars, bankVars, availVars, routeVars,
                    pricingVars, adminVars, policyVars>>
stepsButRoutes == <<skillVars, portfolioVars, bankVars, availVars, profileVars, pricingVars, adminVars, policyVars>>
stepsButPricing == <<skillVars, portfolioVars, bankVars, availVars, routeVars,
                    profileVars, adminVars, policyVars>>

stepsButAdmin == <<skillVars, portfolioVars, bankVars, availVars, routeVars,
                  profileVars, pricingVars, policyVars>>

vars == <<seqVars, stepVars, toast>>

(* ------------------------------ helpers -------------------------------- *)

Max(a, b) == IF a >= b THEN a ELSE b

\* The rows .eq("user_id", u) selects.
RowsOf(u) == {r \in creator_profiles : r.user_id = u}

\* .maybeSingle(): the row, or null when there is none.
MaybeSingle(rows) == IF rows = {} THEN Null ELSE CHOOSE r \in rows : TRUE

\* gen_random_uuid(): an id no row has.
FreshId == Cardinality(creator_profiles) + 1

Inflight == BagCardinality(requests)

Send(req) == requests (+) SetToBag({req})

Drop(req) == requests (-) SetToBag({req})

\* The requests of session s lose their component: it was unmounted, so the
\* code after their await changes no state.
Orphan(bag, s) ==
    LET live == BagToSet(bag)
        orphaned(r) == IF r.session = s THEN [r EXCEPT !.live = FALSE] ELSE r
    IN  [q \in {orphaned(r) : r \in live} |->
            LET pre == {r \in live : orphaned(r) = q}
            IN  IF Cardinality(pre) = 1
                THEN bag[CHOOSE r \in pre : TRUE]
                ELSE bag[q] + bag[[q EXCEPT !.live = TRUE]]]

\* toast({variant, description}); title is left out.
Toast(variant, description) == [variant |-> variant, description |-> description]

\* The step has shown no notification.
NoToast == Toast("none", "")

(* ------------------------- CreatorDashboard ---------------------------- *)

\* Render with the test of onboarding_completed inverted.
RenderInverted(s) ==
    IF isLoadingProfile[s] THEN "spinner"
    ELSE IF creatorProfile[s] = Null \/ creatorProfile[s].onboarding_completed
         THEN "onboarding"
         ELSE "main"

\* What the dashboard route renders.
Render(s) ==
    IF isLoadingProfile[s] THEN "spinner"
    ELSE IF creatorProfile[s] = Null \/ ~creatorProfile[s].onboarding_completed
         THEN "onboarding"
         ELSE "main"

\* InitialStep without the || 1 default.
InitialStepNoDefault(profile) ==
    IF profile = Null THEN 1 ELSE profile.onboarding_step

\* useState(creatorProfile?.onboarding_step || 1)
InitialStep(profile) ==
    IF profile = Null THEN 1
    ELSE IF profile.onboarding_step = 0 THEN 1 ELSE profile.onboarding_step

\* useState(creatorProfile?.id || null)
InitialCreatorId(profile) == IF profile = Null THEN NoId ELSE profile.id

\* setCreatorProfile(data): onboarding_step is read once, by the useState
\* initialisers of the sequencer, which FetchReturn applies to data itself.
Kept(data) ==
    IF data = Null THEN Null
    ELSE [id |-> data.id, onboarding_completed |-> data.onboarding_completed]

InsertRequest(s) == [session |-> s, op |-> "insert", id |-> NoId, val |-> 0, live |-> TRUE]

\* Nothing follows the await of handleNext: the request carries no component.
StepRequest(s, id, n) ==
    [session |-> "any", op |-> "step", id |-> id, val |-> n, live |-> FALSE]

CompleteRequest(s, id) ==
    [session |-> s, op |-> "complete", id |-> id, val |-> LastStep, live |-> TRUE]

(* ------------------------------- Init ---------------------------------- *)

PortfolioUntouched ==
    /\ creator_portfolio = {}
    /\ storage = {}
    /\ portfolio = [s \in Sessions |-> << >>]
    /\ isUploading = [s \in Sessions |-> FALSE]
    /\ portfolioJobs = EmptyBag
    /\ uploads = 0

\* The five text fields of Step6Banking, empty.
EmptyForm == ""

BankingUntouched ==
    /\ creator_banking = {}
    /\ formData = [s \in Sessions |-> EmptyForm]
    /\ isSaving = [s \in Sessions |-> FALSE]
    /\ bankRequests = EmptyBag

\* Two of the columns Step1Profile edits.
Fields == {"bio", "city"}

\* The texts of a field: one character typed, and a second one after it.
FieldTexts == {"a", "ab"}

\* A column that holds NULL.
NullColumn == "NULL"

\* The row as the insert of createCreatorProfile leaves it: no column given.
NullColumns == [f \in Fields |-> NullColumn]

\* The useState initialiser of Step1Profile.
EmptyProfileForm == [f \in Fields |-> ""]

\* sessionStorage.getItem of a key that is not there.
NoItem == "null"

\* A second identity, signed up as customer.
Customer == "u2"

Users == {User, Customer}

\* The rows the sign-up of each identity has inserted: its one role.
SignedUpRoles ==
    {[user_id |-> User, role |-> "team"], [user_id |-> Customer, role |-> "customer"]}

RolesUntouched == user_roles = SignedUpRoles

\* A tab in which nobody has logged in as admin.
AdminUntouched ==
    /\ isAdminLoggedIn = FALSE
    /\ adminSession = NoItem
    /\ loginError = ""

PricingUntouched ==
    /\ creator_pricing = {}
    /\ packages = [s \in Sessions |-> << >>]
    /\ priceRequests = EmptyBag
    /\ priced = 0

ProfileUntouched ==
    /\ creator_profile_fields = NullColumns
    /\ profileFormData = [s \in Sessions |-> EmptyProfileForm]
    /\ fieldRequests = EmptyBag

\* Two of the seven DAYS: a weekend day and a working day.
Days == {0, 1}

\* Two of the TIME_OPTIONS, as hours.
TimeOptions == {9, 18}

\* A time on the client: "09:00" as TIME_OPTIONS writes it, or "09:00:00" as
\* a TIME column is returned.
ClientTime(hour, seconds) == [hour |-> hour, seconds |-> seconds]

\* The useState initialiser of Step5Availability: DEFAULT_AVAILABILITY, with
\* Sunday and Saturday switched off.
DefaultDay(d) ==
    [start_time |-> ClientTime(9, FALSE), end_time |-> ClientTime(18, FALSE),
     is_available |-> d # 0 /\ d # 6]

AvailabilityUntouched ==
    /\ creator_availability = {}
    /\ availability = [s \in Sessions |-> [d \in Days |-> DefaultDay(d)]]
    /\ availRequests = EmptyBag

\* The session of a creator (role team) is present, the creator's dashboard
\* is mounted and no redirect was issued.
SignedIn ==
    /\ auth = [isLoading |-> FALSE, user |-> TRUE, userRole |-> "team"]
    /\ location = "CreatorDashboard"
    /\ navigated = "none"

\* No step data saved, no step component mounted.
StepsUntouched ==
    /\ creator_specializations = {}
    /\ selectedSkills = [s \in Sessions |-> << >>]
    /\ skillRequests = EmptyBag
    /\ PortfolioUntouched
    /\ BankingUntouched
    /\ PricingUntouched
    /\ ProfileUntouched
    /\ AvailabilityUntouched
    /\ SignedIn
    /\ AdminUntouched
    /\ RolesUntouched

\* A creator who just signed up: no profile row; every session has opened the
\* dashboard route, whose profile fetch is pending.
Init ==
    /\ creator_profiles = {}
    /\ isLoadingProfile = [s \in Sessions |-> TRUE]
    /\ creatorProfile = [s \in Sessions |-> Null]
    /\ currentStep = [s \in Sessions |-> 1]
    /\ creatorId = [s \in Sessions |-> NoId]
    /\ isSubmitting = [s \in Sessions |-> FALSE]
    /\ requests = EmptyBag
    /\ StepsUntouched
    /\ toast = NoToast

(* ------------------------- dashboard actions --------------------------- *)

\* The page is opened again (reload, new login): a new CreatorDashboard calls
\* fetchCreatorProfile; the old components are gone, their requests are not
\* cancelled.
Visit(s) ==
    /\ ~isLoadingProfile[s]
    /\ isLoadingProfile' = [isLoadingProfile EXCEPT ![s] = TRUE]
    /\ creatorProfile' = [creatorProfile EXCEPT ![s] = Null]
    /\ currentStep' = [currentStep EXCEPT ![s] = 1]
    /\ creatorId' = [creatorId EXCEPT ![s] = NoId]
    /\ isSubmitting' = [isSubmitting EXCEPT ![s] = FALSE]
    /\ requests' = Orphan(requests, s)
    /\ UNCHANGED creator_profiles
    /\ toast' = NoToast

\* fetchCreatorProfile returns: data is the row, or null when there is none or
\* the select failed.  When the sequencer is rendered it mounts with its
\* initial state, and its effect creates the profile when data is null.
FetchReturn(s, ok) ==
    /\ isLoadingProfile[s]
    /\ LET data == IF ok THEN MaybeSingle(RowsOf(User)) ELSE Null
           shown == data = Null \/ ~data.onboarding_completed
       IN  /\ data = Null => Inflight < MaxInflight
           /\ isLoadingProfile' = [isLoadingProfile EXCEPT ![s] = FALSE]
           /\ creatorProfile' = [creatorProfile EXCEPT ![s] = Kept(data)]
           /\ currentStep' =
                [currentStep EXCEPT ![s] = IF shown THEN InitialStep(data) ELSE 1]
           /\ creatorId' =
                [creatorId EXCEPT ![s] = IF shown THEN InitialCreatorId(data) ELSE NoId]
           /\ requests' = IF data = Null THEN Send(InsertRequest(s)) ELSE requests
    /\ UNCHANGED <<creator_profiles, isSubmitting>>
    /\ toast' = NoToast

(* ------------------------- CreatorOnboarding --------------------------- *)

\* The effect of lines 40-44 runs again (its dependency `user` changed).
CreateEffect(s) ==
    /\ Render(s) = "onboarding"
    /\ creatorProfile[s] = Null
    /\ Inflight < MaxInflight
    /\ requests' = Send(InsertRequest(s))
    /\ UNCHANGED <<creator_profiles, isLoadingProfile, creatorProfile,
                   currentStep, creatorId, isSubmitting>>
    /\ toast' = NoToast

\* InsertRow without the UNIQUE constraint on user_id.
InsertRowNoUnique(u) ==
    creator_profiles \cup
        {[id |-> FreshId, user_id |-> u,
          onboarding_step |-> DefaultStep, onboarding_completed |-> FALSE]}

\* The table's answer to insert({user_id}): UNIQUE(user_id) rejects a second
\* row; the columns not given take their defaults.
InsertRow(u) ==
    IF RowsOf(u) # {} THEN creator_profiles
    ELSE creator_profiles \cup
            {[id |-> FreshId, user_id |-> u,
              onboarding_step |-> DefaultStep, onboarding_completed |-> FALSE]}

\* createCreatorProfile after its await: error -> toast, else setCreatorId.
InsertReturn(req, ok) ==
    /\ req \in BagToSet(requests)
    /\ req.op = "insert"
    /\ LET accepted == ok /\ RowsOf(User) = {}
           s == req.session
       IN  /\ creator_profiles' = IF ok THEN InsertRow(User) ELSE creator_profiles
           /\ creatorId' =
                IF accepted /\ req.live
                THEN [creatorId EXCEPT ![s] = FreshId]
                ELSE creatorId
    /\ requests' = Drop(req)
    /\ UNCHANGED <<isLoadingProfile, creatorProfile, currentStep, isSubmitting>>
    /\ toast' =
         IF ok /\ RowsOf(User) = {} THEN NoToast
         ELSE Toast("destructive", "Could not initialize your profile.")

\* handleNext behind a validation gate: a step is left only with its data
\* saved.
HandleNextGated(s) ==
    /\ Render(s) = "onboarding"
    /\ currentStep[s] = 2 => creator_specializations # {}
    /\ currentStep[s] = 3 => Cardinality(creator_portfolio) >= 6
    /\ IF currentStep[s] < LastStep
       THEN LET nextStep == currentStep[s] + 1
            IN  /\ currentStep' = [currentStep EXCEPT ![s] = nextStep]
                /\ IF creatorId[s] # NoId
                   THEN /\ Inflight < MaxInflight
                        /\ requests' = Send(StepRequest(s, creatorId[s], nextStep))
                   ELSE UNCHANGED requests
       ELSE UNCHANGED <<currentStep, requests>>
    /\ UNCHANGED <<creator_profiles, isLoadingProfile, creatorProfile,
                   creatorId, isSubmitting>>
    /\ toast' = NoToast

\* handleNext up to its await.
HandleNext(s) ==
    /\ Render(s) = "onboarding"
    /\ IF currentStep[s] < LastStep
       THEN LET nextStep == currentStep[s] + 1
            IN  /\ currentStep' = [currentStep EXCEPT ![s] = nextStep]
                /\ IF creatorId[s] # NoId
                   THEN /\ Inflight < MaxInflight
                        /\ requests' = Send(StepRequest(s, creatorId[s], nextStep))
                   ELSE UNCHANGED requests
       ELSE UNCHANGED <<currentStep, requests>>
    /\ UNCHANGED <<creator_profiles, isLoadingProfile, creatorProfile,
                   creatorId, isSubmitting>>
    /\ toast' = NoToast

\* handleBack that also lowers the persisted pointer.
HandleBackPersisting(s) ==
    /\ Render(s) = "onboarding"
    /\ currentStep[s] > 1
    /\ creatorId[s] # NoId
    /\ Inflight < MaxInflight
    /\ currentStep' = [currentStep EXCEPT ![s] = @ - 1]
    /\ requests' = Send(StepRequest(s, creatorId[s], currentStep[s] - 1))
    /\ UNCHANGED <<creator_profiles, isLoadingProfile, creatorProfile,
                   creatorId, isSubmitting>>
    /\ toast' = NoToast

\* handleBack
HandleBack(s) ==
    /\ Render(s) = "onboarding"
    /\ currentStep' =
         [currentStep EXCEPT ![s] = IF @ > 1 THEN @ - 1 ELSE @]
    /\ UNCHANGED <<creator_profiles, isLoadingProfile, creatorProfile,
                   creatorId, isSubmitting, requests>>
    /\ toast' = NoToast

\* .update(fields).eq("id", id) on creator_profiles
UpdateRows(id, fields) ==
    {IF r.id = id
     THEN [f \in DOMAIN r |-> IF f \in DOMAIN fields THEN fields[f] ELSE r[f]]
     ELSE r : r \in creator_profiles}

\* StepReturn that takes a failed advance back on the screen.
StepReturnRollingBack(req, ok) ==
    /\ req \in BagToSet(requests)
    /\ req.op = "step"
    /\ creator_profiles' =
         IF ok THEN UpdateRows(req.id, [onboarding_step |-> req.val])
         ELSE creator_profiles
    /\ currentStep' =
         IF ok THEN currentStep
         ELSE [s \in Sessions |->
                 IF currentStep[s] = req.val THEN req.val - 1 ELSE currentStep[s]]
    /\ requests' = Drop(req)
    /\ UNCHANGED <<isLoadingProfile, creatorProfile, creatorId, isSubmitting>>
    /\ toast' = NoToast

\* The update of handleNext is served; nothing follows its await.
StepReturn(req, ok) ==
    /\ req \in BagToSet(requests)
    /\ req.op = "step"
    /\ creator_profiles' =
         IF ok THEN UpdateRows(req.id, [onboarding_step |-> req.val])
         ELSE creator_profiles
    /\ requests' = Drop(req)
    /\ UNCHANGED <<isLoadingProfile, creatorProfile, currentStep, creatorId,
                   isSubmitting>>
    /\ toast' = NoToast

\* handleComplete that asks for saved banking details.
HandleCompleteNeedingBanking(s) ==
    /\ Render(s) = "onboarding"
    /\ currentStep[s] = LastStep
    /\ ~isSubmitting[s]
    /\ creator_banking # {}
    /\ IF creatorId[s] # NoId
       THEN /\ Inflight < MaxInflight
            /\ isSubmitting' = [isSubmitting EXCEPT ![s] = TRUE]
            /\ requests' = Send(CompleteRequest(s, creatorId[s]))
       ELSE UNCHANGED <<isSubmitting, requests>>
    /\ UNCHANGED <<creator_profiles, isLoadingProfile, creatorProfile,
                   currentStep, creatorId>>
    /\ toast' = NoToast

\* handleComplete up to its await (the button of Step6Banking, disabled while
\* isSubmitting).  Without a creatorId nothing is sent and isSubmitting is
\* reset in the same turn.
HandleComplete(s) ==
    /\ Render(s) = "onboarding"
    /\ currentStep[s] = LastStep
    /\ ~isSubmitting[s]
    /\ IF creatorId[s] # NoId
       THEN /\ Inflight < MaxInflight
            /\ isSubmitting' = [isSubmitting EXCEPT ![s] = TRUE]
            /\ requests' = Send(CompleteRequest(s, creatorId[s]))
       ELSE UNCHANGED <<isSubmitting, requests>>
    /\ UNCHANGED <<creator_profiles, isLoadingProfile, creatorProfile,
                   currentStep, creatorId>>
    /\ toast' = NoToast

\* handleComplete that calls onComplete() whatever the update has answered.
CompleteReturnAlwaysExiting(req, ok) ==
    /\ req \in BagToSet(requests)
    /\ req.op = "complete"
    /\ creator_profiles' =
         IF ok
         THEN UpdateRows(req.id, [onboarding_completed |-> TRUE,
                                  onboarding_step |-> req.val])
         ELSE creator_profiles
    /\ LET s == req.session
       IN  IF req.live
           THEN /\ isLoadingProfile' = [isLoadingProfile EXCEPT ![s] = TRUE]
                /\ creatorProfile' = [creatorProfile EXCEPT ![s] = Null]
                /\ currentStep' = [currentStep EXCEPT ![s] = 1]
                /\ creatorId' = [creatorId EXCEPT ![s] = NoId]
                /\ isSubmitting' = [isSubmitting EXCEPT ![s] = FALSE]
                /\ requests' = Orphan(Drop(req), s)
           ELSE /\ requests' = Drop(req)
                /\ UNCHANGED <<isLoadingProfile, creatorProfile, currentStep,
                               creatorId, isSubmitting>>
    /\ toast' =
         IF ok THEN Toast("default", "Your creator profile is now complete.")
         ELSE Toast("destructive", "Could not complete onboarding.")

\* handleComplete after its await: error -> toast; else onComplete(), which is
\* fetchCreatorProfile of the dashboard: the spinner replaces the sequencer.
CompleteReturn(req, ok) ==
    /\ req \in BagToSet(requests)
    /\ req.op = "complete"
    /\ creator_profiles' =
         IF ok
         THEN UpdateRows(req.id, [onboarding_completed |-> TRUE,
                                  onboarding_step |-> req.val])
         ELSE creator_profiles
    /\ LET s == req.session
       IN  IF req.live /\ ok
           THEN /\ isLoadingProfile' = [isLoadingProfile EXCEPT ![s] = TRUE]
                /\ creatorProfile' = [creatorProfile EXCEPT ![s] = Null]
                /\ currentStep' = [currentStep EXCEPT ![s] = 1]
                /\ creatorId' = [creatorId EXCEPT ![s] = NoId]
                /\ isSubmitting' = [isSubmitting EXCEPT ![s] = FALSE]
                /\ requests' = Orphan(Drop(req), s)
           ELSE /\ isSubmitting' =
                     IF req.live THEN [isSubmitting EXCEPT ![s] = FALSE]
                     ELSE isSubmitting
                /\ requests' = Drop(req)
                /\ UNCHANGED <<isLoadingProfile, creatorProfile, currentStep,
                               creatorId>>
    /\ toast' =
         IF ok THEN Toast("default", "Your creator profile is now complete.")
         ELSE Toast("destructive", "Could not complete onboarding.")

\* The sequencer alone: the step components never write the step pointer.
Next ==
    \/ \E s \in Sessions : Visit(s) /\ UNCHANGED stepVars
    \/ \E s \in Sessions, ok \in BOOLEAN : FetchReturn(s, ok) /\ UNCHANGED stepVars
    \/ \E s \in Sessions : CreateEffect(s) /\ UNCHANGED stepVars
    \/ \E s \in Sessions : HandleNext(s) /\ UNCHANGED stepVars
    \/ \E s \in Sessions : HandleBack(s) /\ UNCHANGED stepVars
    \/ \E s \in Sessions : HandleComplete(s) /\ UNCHANGED stepVars
    \/ \E req \in BagToSet(requests), ok \in BOOLEAN : InsertReturn(req, ok) /\ UNCHANGED stepVars
    \/ \E req \in BagToSet(requests), ok \in BOOLEAN : StepReturn(req, ok) /\ UNCHANGED stepVars
    \/ \E req \in BagToSet(requests), ok \in BOOLEAN : CompleteReturn(req, ok) /\ UNCHANGED stepVars

Spec == Init /\ [][Next]_vars

\* The sequencer when no call to the backend fails.
NextReliable ==
    \/ \E s \in Sessions : Visit(s) /\ UNCHANGED stepVars
    \/ \E s \in Sessions : FetchReturn(s, TRUE) /\ UNCHANGED stepVars
    \/ \E s \in Sessions : CreateEffect(s) /\ UNCHANGED stepVars
    \/ \E s \in Sessions : HandleNext(s) /\ UNCHANGED stepVars
    \/ \E s \in Sessions : HandleBack(s) /\ UNCHANGED stepVars
    \/ \E s \in Sessions : HandleComplete(s) /\ UNCHANGED stepVars
    \/ \E req \in BagToSet(requests) : InsertReturn(req, TRUE) /\ UNCHANGED stepVars
    \/ \E req \in BagToSet(requests) : StepReturn(req, TRUE) /\ UNCHANGED stepVars
    \/ \E req \in BagToSet(requests) : CompleteReturn(req, TRUE) /\ UNCHANGED stepVars

SpecReliable == Init /\ [][NextReliable]_vars

\* Two clicks on Next with functional updates, setCurrentStep(prev => prev +
\* 1), under the test of the rendered step.
HandleNextTwiceCounting(s) ==
    /\ Render(s) = "onboarding"
    /\ IF currentStep[s] < LastStep
       THEN LET nextStep == currentStep[s] + 1
            IN  /\ currentStep' = [currentStep EXCEPT ![s] = @ + 2]
                /\ IF creatorId[s] # NoId
                   THEN /\ Inflight + 2 <= MaxInflight
                        /\ requests' =
                             Send(StepRequest(s, creatorId[s], nextStep))
                                (+) SetToBag({StepRequest(s, creatorId[s], nextStep)})
                   ELSE UNCHANGED requests
       ELSE UNCHANGED <<currentStep, requests>>
    /\ UNCHANGED <<creator_profiles, isLoadingProfile, creatorProfile,
                   creatorId, isSubmitting>>
    /\ toast' = NoToast

\* Two clicks on Next handled before the component renders again: both calls
\* of handleNext read the currentStep of the same render, so both set the
\* same nextStep and both send it.
HandleNextTwice(s) ==
    /\ Render(s) = "onboarding"
    /\ IF currentStep[s] < LastStep
       THEN LET nextStep == currentStep[s] + 1
            IN  /\ currentStep' = [currentStep EXCEPT ![s] = nextStep]
                /\ IF creatorId[s] # NoId
                   THEN /\ Inflight + 2 <= MaxInflight
                        /\ requests' =
                             Send(StepRequest(s, creatorId[s], nextStep))
                                (+) SetToBag({StepRequest(s, creatorId[s], nextStep)})
                   ELSE UNCHANGED requests
       ELSE UNCHANGED <<currentStep, requests>>
    /\ UNCHANGED <<creator_profiles, isLoadingProfile, creatorProfile,
                   creatorId, isSubmitting>>
    /\ toast' = NoToast

\* The sequencer with clicks that outrun the render.
NextTwoClicks ==
    \/ Next
    \/ \E s \in Sessions : HandleNextTwice(s) /\ UNCHANGED stepVars

SpecTwoClicks == Init /\ [][NextTwoClicks]_vars

\* The sequencer with its writes applied in issue order: a call is sent only
\* when the one before it has been served.
NextSerial ==
    \/ \E s \in Sessions : Visit(s) /\ UNCHANGED stepVars
    \/ \E s \in Sessions, ok \in BOOLEAN :
         requests = EmptyBag /\ FetchReturn(s, ok) /\ UNCHANGED stepVars
    \/ \E s \in Sessions :
         requests = EmptyBag /\ CreateEffect(s) /\ UNCHANGED stepVars
    \/ \E s \in Sessions :
         requests = EmptyBag /\ HandleNext(s) /\ UNCHANGED stepVars
    \/ \E s \in Sessions : HandleBack(s) /\ UNCHANGED stepVars
    \/ \E s \in Sessions :
         requests = EmptyBag /\ HandleComplete(s) /\ UNCHANGED stepVars
    \/ \E req \in BagToSet(requests), ok \in BOOLEAN : InsertReturn(req, ok) /\ UNCHANGED stepVars
    \/ \E req \in BagToSet(requests), ok \in BOOLEAN : StepReturn(req, ok) /\ UNCHANGED stepVars
    \/ \E req \in BagToSet(requests), ok \in BOOLEAN : CompleteReturn(req, ok) /\ UNCHANGED stepVars

SpecSerial == Init /\ [][NextSerial]_vars

(* ------------------ mounting over an edited step pointer --------------- *)

\* onboarding_step is INTEGER with no CHECK: the values a manual edit of the
\* column can leave in it.
EditedSteps == (0 - StepSpread)..(LastStep + StepSpread)

InitMount ==
    /\ \E n \in EditedSteps :
          creator_profiles =
             {[id |-> 1, user_id |-> User,
               onboarding_step |-> n, onboarding_completed |-> FALSE]}
    /\ isLoadingProfile = [s \in Sessions |-> TRUE]
    /\ creatorProfile = [s \in Sessions |-> Null]
    /\ currentStep = [s \in Sessions |-> 1]
    /\ creatorId = [s \in Sessions |-> NoId]
    /\ isSubmitting = [s \in Sessions |-> FALSE]
    /\ requests = EmptyBag
    /\ StepsUntouched
    /\ toast = NoToast

\* A manual edit of the column.
DataEdit(n) ==
    /\ \E r \in creator_profiles : r.onboarding_step # n
    /\ creator_profiles' =
         {[r EXCEPT !.onboarding_step = n] : r \in creator_profiles}
    /\ UNCHANGED <<isLoadingProfile, creatorProfile, currentStep, creatorId,
                   isSubmitting, requests>>
    /\ toast' = NoToast

NextMount ==
    \/ \E s \in Sessions : Visit(s) /\ UNCHANGED stepVars
    \/ \E s \in Sessions, ok \in BOOLEAN : FetchReturn(s, ok) /\ UNCHANGED stepVars
    \/ \E req \in BagToSet(requests), ok \in BOOLEAN : InsertReturn(req, ok) /\ UNCHANGED stepVars
    \/ \E n \in EditedSteps : DataEdit(n) /\ UNCHANGED stepVars

SpecMount == InitMount /\ [][NextMount]_vars

TypeOK ==
    /\ \A s \in Sessions : currentStep[s] \in 1..LastStep
    /\ Inflight <= MaxInflight

(* ------------------------ Step2Specialization -------------------------- *)

\* Two of the ten SPECIALIZATIONS / specialization_category values.
Categories == {"photography", "copywriting"}

\* SKILL_LEVELS / the skill_level enum.
SkillLevels == {"beginner", "intermediate", "expert"}

Range(seq) == {seq[i] : i \in DOMAIN seq}

\* The sequences that list each element of the finite set S once: the orders
\* in which a select without ORDER BY can return its rows.
RECURSIVE Orderings(_)
Orderings(S) ==
    IF S = {} THEN {<< >>}
    ELSE UNION {{<<x>> \o rest : rest \in Orderings(S \ {x})} : x \in S}

\* Step2Specialization is what renderStep shows in session s.
Step2Mounted(s) == Render(s) = "onboarding" /\ currentStep[s] = 2

\* selectedSkills.find(s => s.category === specId)
Existing(sel, c) == \E i \in DOMAIN sel : sel[i].category = c

\* .select("category, skill_level").eq("creator_id", id)
SkillsOf(rows, id) ==
    {[category |-> r.category, skill_level |-> r.skill_level] :
        r \in {x \in rows : x.creator_id = id}}

SkillRequest(s, op, id, c, level) ==
    [session |-> s, op |-> op, creator_id |-> id, category |-> c,
     skill_level |-> level]

\* toggleSpecialization that inserts whatever is selected.
ToggleRequestAlwaysInsert(s, sel, id, c) ==
    SkillRequest(s, "insert", id, c, "beginner")

\* toggleSpecialization up to its await: delete when the category is
\* selected, insert at the beginner level otherwise.
ToggleRequest(s, sel, id, c) ==
    SkillRequest(s, IF Existing(sel, c) THEN "delete" ELSE "insert", id, c,
                 "beginner")

\* A table that lacks UNIQUE(creator_id, category).
SkillErrorWithoutUnique(rows, req, ok) ==
    \/ ~ok
    \/ req.op = "insert" /\ req.creator_id = NoId

\* Whether the table answers the request with an error: the call failed, or
\* the insert breaks UNIQUE(creator_id, category) or names no profile.
SkillError(rows, req, ok) ==
    \/ ~ok
    \/ /\ req.op = "insert"
       /\ \/ req.creator_id = NoId
          \/ \E r \in rows :
                r.creator_id = req.creator_id /\ r.category = req.category

\* creator_specializations after the request is served.
ServeSkill(rows, req, ok) ==
    IF SkillError(rows, req, ok) THEN rows
    ELSE IF req.op = "insert"
    THEN rows \cup {[creator_id |-> req.creator_id, category |-> req.category,
                     skill_level |-> req.skill_level]}
    ELSE IF req.op = "delete"
    THEN {r \in rows :
            ~(r.creator_id = req.creator_id /\ r.category = req.category)}
    ELSE IF req.op = "update"
    THEN {IF r.creator_id = req.creator_id /\ r.category = req.category
          THEN [r EXCEPT !.skill_level = req.skill_level] ELSE r : r \in rows}
    ELSE rows

\* prev.filter(s => s.category !== specId)
Without(sel, c) == SelectSeq(sel, LAMBDA x : x.category # c)

\* selectedSkills after the await of the handler that sent req: the delete
\* and update branches ignore the error, the insert branch tests it.
AfterSkill(sel, req, error) ==
    IF req.op = "delete" THEN Without(sel, req.category)
    ELSE IF req.op = "insert"
    THEN IF error THEN sel
         ELSE Append(sel, [category |-> req.category, skill_level |-> "beginner"])
    ELSE IF req.op = "update"
    THEN [i \in DOMAIN sel |->
            IF sel[i].category = req.category
            THEN [sel[i] EXCEPT !.skill_level = req.skill_level] ELSE sel[i]]
    ELSE sel

SkillsInflight == BagCardinality(skillRequests)

\* A click on a specialization card.
ToggleStart(s, c) ==
    /\ Step2Mounted(s)
    /\ SkillsInflight < MaxSkillCalls
    /\ skillRequests' =
         skillRequests (+)
            SetToBag({ToggleRequest(s, selectedSkills[s], creatorId[s], c)})
    /\ UNCHANGED <<creator_specializations, selectedSkills>>
    /\ toast' = NoToast

\* A click on a skill-level button, shown for a selected category:
\* updateSkillLevel up to its await.
UpdateSkillStart(s, c, level) ==
    /\ Step2Mounted(s)
    /\ Existing(selectedSkills[s], c)
    /\ SkillsInflight < MaxSkillCalls
    /\ skillRequests' =
         skillRequests (+) SetToBag({SkillRequest(s, "update", creatorId[s], c, level)})
    /\ UNCHANGED <<creator_specializations, selectedSkills>>
    /\ toast' = NoToast

\* A write to creator_specializations is served and its handler resumes.
SkillReturn(req, ok) ==
    /\ req \in BagToSet(skillRequests)
    /\ req.op # "fetch"
    /\ creator_specializations' = ServeSkill(creator_specializations, req, ok)
    /\ selectedSkills' =
         [selectedSkills EXCEPT ![req.session] =
            AfterSkill(@, req, SkillError(creator_specializations, req, ok))]
    /\ skillRequests' = skillRequests (-) SetToBag({req})
    /\ toast' = NoToast

\* fetchSpecializations returns: the rows replace the selection, unless the
\* select failed.
FetchSkillsReturn(req, ok) ==
    /\ req \in BagToSet(skillRequests)
    /\ req.op = "fetch"
    /\ IF ok
       THEN \E data \in Orderings(SkillsOf(creator_specializations, req.creator_id)) :
               selectedSkills' = [selectedSkills EXCEPT ![req.session] = data]
       ELSE UNCHANGED selectedSkills
    /\ skillRequests' = skillRequests (-) SetToBag({req})
    /\ UNCHANGED creator_specializations
    /\ toast' = NoToast

\* The session in which the creator works through the step components.
Editor == "s1"

\* The creator has a profile; the editing session shows step 2, where
\* Step2Specialization has just mounted and its effect has called
\* fetchSpecializations; the other sessions have the dashboard route loading.
InitSkills ==
    /\ creator_profiles =
         {[id |-> 1, user_id |-> User,
           onboarding_step |-> 2, onboarding_completed |-> FALSE]}
    /\ isLoadingProfile = [s \in Sessions |-> s # Editor]
    /\ creatorProfile =
         [s \in Sessions |->
            IF s = Editor THEN [id |-> 1, onboarding_completed |-> FALSE] ELSE Null]
    /\ currentStep = [s \in Sessions |-> IF s = Editor THEN 2 ELSE 1]
    /\ creatorId = [s \in Sessions |-> IF s = Editor THEN 1 ELSE NoId]
    /\ isSubmitting = [s \in Sessions |-> FALSE]
    /\ requests = EmptyBag
    /\ creator_specializations = {}
    /\ selectedSkills = [s \in Sessions |-> << >>]
    /\ skillRequests = SetToBag({SkillRequest(Editor, "fetch", 1, "", "")})
    /\ PortfolioUntouched
    /\ BankingUntouched
    /\ PricingUntouched
    /\ ProfileUntouched
    /\ AvailabilityUntouched
    /\ SignedIn
    /\ AvailabilityUntouched
    /\ toast = NoToast
    /\ AdminUntouched
    /\ RolesUntouched

NextSkills ==
    \/ \E s \in Sessions, c \in Categories :
          ToggleStart(s, c) /\ UNCHANGED <<seqVars, stepsButSkills>>
    \/ \E s \in Sessions, c \in Categories, level \in SkillLevels :
          UpdateSkillStart(s, c, level) /\ UNCHANGED <<seqVars, stepsButSkills>>
    \/ \E req \in BagToSet(skillRequests), ok \in BOOLEAN :
          SkillReturn(req, ok) /\ UNCHANGED <<seqVars, stepsButSkills>>
    \/ \E req \in BagToSet(skillRequests), ok \in BOOLEAN :
          FetchSkillsReturn(req, ok) /\ UNCHANGED <<seqVars, stepsButSkills>>

SpecSkills == InitSkills /\ [][NextSkills]_vars

\* One run of toggleSpecialization(c) to its end, its call succeeding, on the
\* rows and the selection st.
ToggleOnce(st, s, id, c) ==
    LET req == ToggleRequest(s, st.sel, id, c)
    IN  [rows |-> ServeSkill(st.rows, req, TRUE),
         sel |-> AfterSkill(st.sel, req, SkillError(st.rows, req, TRUE))]

(* --------------------------- Step3Portfolio ---------------------------- *)

\* if (portfolio.length + files.length > 10)
PortfolioCap == 10

Bucket == "creator-portfolio"

\* Step3Portfolio is what renderStep shows in session s.
Step3Mounted(s) == Render(s) = "onboarding" /\ currentStep[s] = 3

\* `${user?.id}/${Date.now()}-${random}.${fileExt}`: a path of two segments
\* that no earlier file has.
FileName(u, n) == <<u, ToString(n)>>

\* getPublicUrl(fileName), as its path segments.
PublicUrl(path) == <<"storage", "object", "public", Bucket>> \o path

\* file_url.split("/creator-portfolio/")[1]: what follows the first bucket
\* segment, up to the next one; empty when the url has no such segment.
SplitPath(url) ==
    LET marks == {i \in DOMAIN url : url[i] = Bucket}
    IN  IF marks = {} THEN << >>
        ELSE LET first == CHOOSE i \in marks : \A j \in marks : i <= j
                 later == {j \in marks : j > first}
                 stop == IF later = {} THEN Len(url) + 1
                         ELSE CHOOSE j \in later : \A k \in later : j <= k
             IN  SubSeq(url, first + 1, stop - 1)

\* A handler of Step3Portfolio waiting on a call: which call (phase), and
\* what it holds in its closure.  item is the id of the row: the one to
\* delete, or the one gen_random_uuid() gives the file being uploaded.
Job(s, kind, phase, left, base, path, id, url) ==
    [session |-> s, kind |-> kind, phase |-> phase, left |-> left,
     base |-> base, path |-> path, item |-> id, url |-> url,
     creator_id |-> creatorId[s]]

JobsRunning == BagCardinality(portfolioJobs)

Replace(job, next) == (portfolioJobs (-) SetToBag({job})) (+) SetToBag({next})

\* The rows in an order .order("display_order") can return them in.
RECURSIVE ByDisplayOrder(_)
ByDisplayOrder(rows) ==
    IF rows = {} THEN {<< >>}
    ELSE LET least == {r \in rows :
                         \A q \in rows : r.display_order <= q.display_order}
         IN  UNION {{<<x>> \o rest : rest \in ByDisplayOrder(rows \ {x})} :
                       x \in least}

\* The change event of the file input with n files: handleFileSelect up to
\* its first await.
FileSelect(s, n) ==
    /\ Step3Mounted(s)
    /\ uploads < MaxFiles
    /\ JobsRunning < MaxPortfolioJobs
    /\ IF Len(portfolio[s]) + n > PortfolioCap
       THEN UNCHANGED <<isUploading, portfolioJobs, uploads>>
       ELSE /\ isUploading' = [isUploading EXCEPT ![s] = TRUE]
            /\ uploads' = uploads + 1
            /\ portfolioJobs' =
                 portfolioJobs (+)
                    SetToBag({Job(s, "select", "upload", n, Len(portfolio[s]),
                                  FileName(User, uploads + 1), uploads + 1,
                                  << >>)})
    /\ UNCHANGED <<creator_portfolio, storage, portfolio>>
    /\ toast' =
         IF Len(portfolio[s]) + n > PortfolioCap
         THEN Toast("destructive", "You can upload maximum 10 items.")
         ELSE NoToast

\* The loop of handleFileSelect goes on to the next file, or leaves the loop
\* and calls fetchPortfolio.
NextFile(job) ==
    IF job.left > 1 /\ uploads < MaxFiles
    THEN [job EXCEPT !.phase = "upload", !.left = @ - 1,
                     !.path = FileName(User, uploads + 1), !.item = uploads + 1]
    ELSE [job EXCEPT !.phase = "fetch", !.left = 0, !.path = << >>, !.item = 0]

\* storage.upload returns: on an error a toast and `continue`.
UploadReturn(job, ok) ==
    /\ job \in BagToSet(portfolioJobs)
    /\ job.phase = "upload"
    /\ IF ok
       THEN /\ storage' = storage \cup {job.path}
            /\ portfolioJobs' = Replace(job, [job EXCEPT !.phase = "insert"])
            /\ UNCHANGED uploads
       ELSE /\ portfolioJobs' = Replace(job, NextFile(job))
            /\ uploads' = IF NextFile(job).phase = "upload" THEN uploads + 1 ELSE uploads
            /\ UNCHANGED storage
    /\ UNCHANGED <<creator_portfolio, portfolio, isUploading>>
    /\ toast' =
         IF ok THEN NoToast ELSE Toast("destructive", "Could not upload the file")

\* The insert into creator_portfolio returns; its error is not read.
\* display_order is portfolio.length of the render that got the event.
InsertItemReturn(job, ok) ==
    /\ job \in BagToSet(portfolioJobs)
    /\ job.phase = "insert"
    /\ creator_portfolio' =
         IF ok /\ job.creator_id # NoId
         THEN creator_portfolio \cup
                {[id |-> job.item,
                  creator_id |-> job.creator_id,
                  file_url |-> PublicUrl(job.path), display_order |-> job.base]}
         ELSE creator_portfolio
    /\ portfolioJobs' = Replace(job, NextFile(job))
    /\ uploads' = IF NextFile(job).phase = "upload" THEN uploads + 1 ELSE uploads
    /\ UNCHANGED <<storage, portfolio, isUploading>>
    /\ toast' = NoToast

\* A click on the remove button of the i-th item: handleRemove up to its
\* first await.
RemoveStart(s, i) ==
    /\ Step3Mounted(s)
    /\ i \in DOMAIN portfolio[s]
    /\ JobsRunning < MaxPortfolioJobs
    /\ LET item == portfolio[s][i]
           path == SplitPath(item.file_url)
       IN  portfolioJobs' =
             portfolioJobs (+)
                SetToBag({Job(s, "remove",
                              IF path # << >> THEN "storage" ELSE "delete",
                              0, 0, path, item.id, item.file_url)})
    /\ UNCHANGED <<creator_portfolio, storage, portfolio, isUploading, uploads>>
    /\ toast' = NoToast

\* storage.remove([path]) returns; its error is not read.
StorageRemoveReturn(job, ok) ==
    /\ job \in BagToSet(portfolioJobs)
    /\ job.phase = "storage"
    /\ storage' = IF ok THEN storage \ {job.path} ELSE storage
    /\ portfolioJobs' = Replace(job, [job EXCEPT !.phase = "delete"])
    /\ UNCHANGED <<creator_portfolio, portfolio, isUploading, uploads>>
    /\ toast' = NoToast

\* .delete().eq("id", item.id) returns; its error is not read.
DeleteItemReturn(job, ok) ==
    /\ job \in BagToSet(portfolioJobs)
    /\ job.phase = "delete"
    /\ creator_portfolio' =
         IF ok THEN {r \in creator_portfolio : r.id # job.item}
         ELSE creator_portfolio
    /\ portfolioJobs' = Replace(job, [job EXCEPT !.phase = "fetch"])
    /\ UNCHANGED <<storage, portfolio, isUploading, uploads>>
    /\ toast' = NoToast

\* What Step3Portfolio keeps of a row: select("id, file_url, file_type, title").
Item(r) == [id |-> r.id, file_url |-> r.file_url]

\* fetchPortfolio returns to the handler that called it, which then ends;
\* handleFileSelect resets isUploading.
FetchPortfolioReturn(job, ok) ==
    /\ job \in BagToSet(portfolioJobs)
    /\ job.phase = "fetch"
    /\ IF ok
       THEN \E rows \in ByDisplayOrder({r \in creator_portfolio :
                                          r.creator_id = job.creator_id}) :
               portfolio' =
                 [portfolio EXCEPT ![job.session] =
                    [i \in DOMAIN rows |-> Item(rows[i])]]
       ELSE UNCHANGED portfolio
    /\ isUploading' =
         IF job.kind = "select" THEN [isUploading EXCEPT ![job.session] = FALSE]
         ELSE isUploading
    /\ portfolioJobs' = portfolioJobs (-) SetToBag({job})
    /\ UNCHANGED <<creator_portfolio, storage, uploads>>
    /\ toast' = NoToast

\* The creator has a profile; the editing session shows step 3, where
\* Step3Portfolio has just mounted and its effect has called fetchPortfolio.
InitPortfolio ==
    /\ creator_profiles =
         {[id |-> 1, user_id |-> User,
           onboarding_step |-> 3, onboarding_completed |-> FALSE]}
    /\ isLoadingProfile = [s \in Sessions |-> s # Editor]
    /\ creatorProfile =
         [s \in Sessions |->
            IF s = Editor THEN [id |-> 1, onboarding_completed |-> FALSE] ELSE Null]
    /\ currentStep = [s \in Sessions |-> IF s = Editor THEN 3 ELSE 1]
    /\ creatorId = [s \in Sessions |-> IF s = Editor THEN 1 ELSE NoId]
    /\ isSubmitting = [s \in Sessions |-> FALSE]
    /\ requests = EmptyBag
    /\ creator_specializations = {}
    /\ selectedSkills = [s \in Sessions |-> << >>]
    /\ skillRequests = EmptyBag
    /\ creator_portfolio = {}
    /\ storage = {}
    /\ portfolio = [s \in Sessions |-> << >>]
    /\ isUploading = [s \in Sessions |-> FALSE]
    /\ uploads = 0
    /\ portfolioJobs =
         SetToBag({[session |-> Editor, kind |-> "mount", phase |-> "fetch",
                    left |-> 0, base |-> 0, path |-> << >>, item |-> 0,
                    url |-> << >>, creator_id |-> 1]})
    /\ BankingUntouched
    /\ PricingUntouched
    /\ ProfileUntouched
    /\ AvailabilityUntouched
    /\ SignedIn
    /\ toast = NoToast
    /\ AdminUntouched
    /\ RolesUntouched

NextPortfolio ==
    \/ \E s \in Sessions, n \in 1..MaxBatch :
          FileSelect(s, n) /\ UNCHANGED <<seqVars, stepsButPortfolio>>
    \/ \E s \in Sessions, i \in 1..MaxFiles :
          RemoveStart(s, i) /\ UNCHANGED <<seqVars, stepsButPortfolio>>
    \/ \E job \in BagToSet(portfolioJobs), ok \in BOOLEAN :
          UploadReturn(job, ok) /\ UNCHANGED <<seqVars, stepsButPortfolio>>
    \/ \E job \in BagToSet(portfolioJobs), ok \in BOOLEAN :
          InsertItemReturn(job, ok) /\ UNCHANGED <<seqVars, stepsButPortfolio>>
    \/ \E job \in BagToSet(portfolioJobs), ok \in BOOLEAN :
          StorageRemoveReturn(job, ok) /\ UNCHANGED <<seqVars, stepsButPortfolio>>
    \/ \E job \in BagToSet(portfolioJobs), ok \in BOOLEAN :
          DeleteItemReturn(job, ok) /\ UNCHANGED <<seqVars, stepsButPortfolio>>
    \/ \E job \in BagToSet(portfolioJobs), ok \in BOOLEAN :
          FetchPortfolioReturn(job, ok) /\ UNCHANGED <<seqVars, stepsButPortfolio>>

SpecPortfolio == InitPortfolio /\ [][NextPortfolio]_vars

\* An item uploaded before the run: the n-th file of an earlier visit.
Uploaded(n) ==
    [id |-> 100 + n, creator_id |-> 1,
     file_url |-> PublicUrl(FileName(User, 100 + n)), display_order |-> n - 1]

\* As InitPortfolio, for a creator who has uploaded one item less than the
\* cap allows.
InitCap ==
    /\ creator_profiles =
         {[id |-> 1, user_id |-> User,
           onboarding_step |-> 3, onboarding_completed |-> FALSE]}
    /\ isLoadingProfile = [s \in Sessions |-> s # Editor]
    /\ creatorProfile =
         [s \in Sessions |->
            IF s = Editor THEN [id |-> 1, onboarding_completed |-> FALSE] ELSE Null]
    /\ currentStep = [s \in Sessions |-> IF s = Editor THEN 3 ELSE 1]
    /\ creatorId = [s \in Sessions |-> IF s = Editor THEN 1 ELSE NoId]
    /\ isSubmitting = [s \in Sessions |-> FALSE]
    /\ requests = EmptyBag
    /\ creator_specializations = {}
    /\ selectedSkills = [s \in Sessions |-> << >>]
    /\ skillRequests = EmptyBag
    /\ creator_portfolio = {Uploaded(n) : n \in 1..(PortfolioCap - 1)}
    /\ storage = {FileName(User, 100 + n) : n \in 1..(PortfolioCap - 1)}
    /\ portfolio = [s \in Sessions |-> << >>]
    /\ isUploading = [s \in Sessions |-> FALSE]
    /\ uploads = 0
    /\ portfolioJobs =
         SetToBag({[session |-> Editor, kind |-> "mount", phase |-> "fetch",
                    left |-> 0, base |-> 0, path |-> << >>, item |-> 0,
                    url |-> << >>, creator_id |-> 1]})
    /\ BankingUntouched
    /\ PricingUntouched
    /\ ProfileUntouched
    /\ AvailabilityUntouched
    /\ SignedIn
    /\ toast = NoToast
    /\ AdminUntouched
    /\ RolesUntouched

\* The creator goes on selecting files and removes none.
NextCap ==
    \/ \E s \in Sessions, n \in 1..MaxBatch :
          FileSelect(s, n) /\ UNCHANGED <<seqVars, stepsButPortfolio>>
    \/ \E job \in BagToSet(portfolioJobs), ok \in BOOLEAN :
          UploadReturn(job, ok) /\ UNCHANGED <<seqVars, stepsButPortfolio>>
    \/ \E job \in BagToSet(portfolioJobs), ok \in BOOLEAN :
          InsertItemReturn(job, ok) /\ UNCHANGED <<seqVars, stepsButPortfolio>>
    \/ \E job \in BagToSet(portfolioJobs), ok \in BOOLEAN :
          FetchPortfolioReturn(job, ok) /\ UNCHANGED <<seqVars, stepsButPortfolio>>

SpecCap == InitCap /\ [][NextCap]_vars

(* -------------------------- dashboard guards --------------------------- *)

\* The components that guard a dashboard route by the role of the session.
Dashboards == {"CreatorDashboard", "TeamDashboard", "InfluencerDashboard"}

\* userRole: null, or a value of the app_role enum.
Roles == {"null", "team", "customer", "admin"}

\* The role the guard of dashboard d compares userRole with.
ExpectedRole(d) == IF d = "InfluencerDashboard" THEN "customer" ELSE "team"

\* The path the guard of dashboard d passes to navigate().
AuthPage(d) ==
    IF d = "CreatorDashboard" THEN "/creator/auth"
    ELSE IF d = "TeamDashboard" THEN "/team/auth"
    ELSE "/influencer/auth"

\* A guard that tests the session only.
GuardIgnoringRole(d, a) ==
    IF ~a.isLoading /\ ~a.user THEN AuthPage(d) ELSE "none"

\* The guard effect: if (!isLoading && (!user || userRole !== role))
\* navigate(page).
Guard(d, a) ==
    IF ~a.isLoading /\ (~a.user \/ a.userRole # ExpectedRole(d))
    THEN AuthPage(d) ELSE "none"

\* The values useAuth() can give.
AuthStates == [isLoading : BOOLEAN, user : BOOLEAN, userRole : Roles]

\* The effect of dashboard d runs under the auth state a.
RunGuard(d, a) ==
    /\ navigated' = Guard(d, a)
    /\ location' = IF Guard(d, a) = "none" THEN d ELSE Guard(d, a)

\* The route of dashboard d is opened: the component mounts and its effect
\* runs.
OpenDashboard(d) ==
    /\ location # d
    /\ RunGuard(d, auth)
    /\ UNCHANGED auth

\* The auth context changes (loading ends, sign-in, sign-out, the role is
\* fetched): the effect of a mounted dashboard, which depends on user,
\* userRole and isLoading, runs again.
AuthChange(a) ==
    /\ a # auth
    /\ auth' = a
    /\ IF location \in Dashboards
       THEN RunGuard(location, a)
       ELSE navigated' = "none" /\ UNCHANGED location

\* A browser tab that is starting: the auth context is loading and no route
\* component has mounted.
InitGuard ==
    /\ creator_profiles = {}
    /\ isLoadingProfile = [s \in Sessions |-> TRUE]
    /\ creatorProfile = [s \in Sessions |-> Null]
    /\ currentStep = [s \in Sessions |-> 1]
    /\ creatorId = [s \in Sessions |-> NoId]
    /\ isSubmitting = [s \in Sessions |-> FALSE]
    /\ requests = EmptyBag
    /\ creator_specializations = {}
    /\ selectedSkills = [s \in Sessions |-> << >>]
    /\ skillRequests = EmptyBag
    /\ PortfolioUntouched
    /\ BankingUntouched
    /\ PricingUntouched
    /\ ProfileUntouched
    /\ AvailabilityUntouched
    /\ auth \in {a \in AuthStates : a.isLoading}
    /\ location = "/"
    /\ navigated = "none"
    /\ toast = NoToast
    /\ AdminUntouched
    /\ RolesUntouched

NextGuard ==
    \/ \E d \in Dashboards :
         OpenDashboard(d)
         /\ UNCHANGED <<seqVars, stepsButRoutes, toast>>
    \/ \E a \in AuthStates :
         AuthChange(a)
         /\ UNCHANGED <<seqVars, stepsButRoutes, toast>>

SpecGuard == InitGuard /\ [][NextGuard]_vars

(* ------------------ admin entry point and page guards ------------------ *)

ADMIN_EMAIL == "admin@example.com"

ADMIN_PASSWORD == "admin123"

\* What the email field of the login form can hold: the address, the address
\* with another capital, nothing.
Emails == {ADMIN_EMAIL, "Admin@example.com", ""}

\* What the password field can hold: the password, a longer one, nothing.
Passwords == {ADMIN_PASSWORD, "admin1234", ""}

\* An entry point that compares the email only.
AdminLoginByEmail(email, password, success) ==
    IF email = ADMIN_EMAIL
    THEN /\ isAdminLoggedIn' = TRUE
         /\ adminSession' = "true"
         /\ success = TRUE
    ELSE /\ UNCHANGED <<isAdminLoggedIn, adminSession>>
         /\ success = FALSE

\* adminLogin(email, password); success is result.success.
AdminLogin(email, password, success) ==
    IF email = ADMIN_EMAIL /\ password = ADMIN_PASSWORD
    THEN /\ isAdminLoggedIn' = TRUE
         /\ adminSession' = "true"
         /\ success = TRUE
    ELSE /\ UNCHANGED <<isAdminLoggedIn, adminSession>>
         /\ success = FALSE

\* adminLogout()
AdminLogout ==
    /\ isAdminLoggedIn' = FALSE
    /\ adminSession' = NoItem

\* The auth pages of the roles; a dashboard is named by its component, as in
\* Dashboards.
AuthPages == {"/creator/auth", "/influencer/auth"}

\* The dashboards the routes mount behind those pages.
RoleDashboards == {"CreatorDashboard", "InfluencerDashboard"}

\* The dashboard the guard of auth page p navigates to.
DashboardOf(p) ==
    IF p = "/creator/auth" THEN "CreatorDashboard" ELSE "InfluencerDashboard"

\* The role the guard of auth page p compares userRole with.
PageRole(p) == IF p = "/creator/auth" THEN "team" ELSE "customer"

\* An auth page that redirects every signed-in user.
AuthPageGuardIgnoringRole(p, a) ==
    IF ~a.isLoading /\ a.user THEN DashboardOf(p) ELSE "none"

\* The guard effect of an auth page: if (!isLoading && user && userRole ===
\* role) navigate(dashboard).
AuthPageGuard(p, a) ==
    IF ~a.isLoading /\ a.user /\ a.userRole = PageRole(p)
    THEN DashboardOf(p) ELSE "none"

\* The guard effect of AdminLogin.
AdminLoginGuard(flag) == IF flag THEN "AdminDashboard" ELSE "none"

\* The guard effect of AdminDashboard.
AdminDashboardGuard(flag) == IF ~flag THEN "/admin/login" ELSE "none"

\* The routes of the application that carry a guard, and the home page.
Pages == AuthPages \cup RoleDashboards \cup {"/admin/login", "AdminDashboard", "/"}

\* Where the guard effect of the page shown navigates to under the auth state
\* a and the admin flag, or "none".
PageGuard(p, a, flag) ==
    IF p \in AuthPages THEN AuthPageGuard(p, a)
    ELSE IF p \in RoleDashboards THEN Guard(p, a)
    ELSE IF p = "/admin/login" THEN AdminLoginGuard(flag)
    ELSE IF p = "AdminDashboard" THEN AdminDashboardGuard(flag)
    ELSE "none"

\* The guard of the page shown does not navigate.
Stable == PageGuard(location, auth, isAdminLoggedIn) = "none"

\* The guard effect of the page shown runs and navigates.
Redirect ==
    /\ ~Stable
    /\ location' = PageGuard(location, auth, isAdminLoggedIn)
    /\ navigated' = PageGuard(location, auth, isAdminLoggedIn)
    /\ UNCHANGED <<auth, adminVars>>
    /\ toast' = NoToast

\* A link is followed or a path is entered in the running application.
OpenPage(p) ==
    /\ location # p
    /\ location' = p
    /\ navigated' = "none"
    /\ UNCHANGED <<auth, adminVars>>
    /\ toast' = NoToast

\* The auth context changes: loading ends, sign-in, sign-out, the role is
\* fetched.
SessionChange(a) ==
    /\ a # auth
    /\ auth' = a
    /\ navigated' = "none"
    /\ UNCHANGED <<location, adminVars>>
    /\ toast' = NoToast

\* handleLogin of AdminLogin.
HandleLogin(email, password) ==
    /\ location = "/admin/login"
    /\ \E success \in BOOLEAN :
         /\ AdminLogin(email, password, success)
         /\ IF success
            THEN /\ toast' = Toast("default", "You have successfully logged in.")
                 /\ location' = "AdminDashboard"
                 /\ navigated' = "AdminDashboard"
                 /\ loginError' = ""
            ELSE /\ toast' = NoToast
                 /\ loginError' = "Invalid credentials"
                 /\ navigated' = "none"
                 /\ UNCHANGED location
    /\ UNCHANGED auth

\* handleLogout of AdminDashboard.
HandleLogout ==
    /\ location = "AdminDashboard"
    /\ AdminLogout
    /\ location' = "/"
    /\ navigated' = "/"
    /\ UNCHANGED <<auth, loginError>>
    /\ toast' = NoToast

\* handleSignUp of CreatorAuth after its validation: signUp answers, and on
\* success the handler navigates to the dashboard whatever the auth context
\* holds by then.
HandleSignUp(ok, a) ==
    /\ location = "/creator/auth"
    /\ IF ok
       THEN /\ auth' = a
            /\ toast' = Toast("default", "Welcome to the creator portal.")
            /\ location' = "CreatorDashboard"
            /\ navigated' = "CreatorDashboard"
       ELSE /\ toast' = Toast("destructive", "An error occurred during sign up.")
            /\ navigated' = "none"
            /\ UNCHANGED <<auth, location>>
    /\ UNCHANGED adminVars

\* The tab is reloaded: the providers start again, the page of the path
\* mounts and the effects of the first commit run, the guard of the page
\* before the mount effect of AdminAuthProvider, which reads sessionStorage.
Reload ==
    /\ auth' \in {a \in AuthStates : a.isLoading /\ ~a.user /\ a.userRole = "null"}
    /\ location' = IF PageGuard(location, auth', FALSE) = "none"
                   THEN location ELSE PageGuard(location, auth', FALSE)
    /\ navigated' = PageGuard(location, auth', FALSE)
    /\ isAdminLoggedIn' = (adminSession = "true")
    /\ loginError' = ""
    /\ UNCHANGED adminSession
    /\ toast' = NoToast

\* A tab that has opened the home page; the auth context is loading.
InitEntry ==
    /\ creator_profiles = {}
    /\ isLoadingProfile = [s \in Sessions |-> TRUE]
    /\ creatorProfile = [s \in Sessions |-> Null]
    /\ currentStep = [s \in Sessions |-> 1]
    /\ creatorId = [s \in Sessions |-> NoId]
    /\ isSubmitting = [s \in Sessions |-> FALSE]
    /\ requests = EmptyBag
    /\ creator_specializations = {}
    /\ selectedSkills = [s \in Sessions |-> << >>]
    /\ skillRequests = EmptyBag
    /\ PortfolioUntouched
    /\ BankingUntouched
    /\ PricingUntouched
    /\ ProfileUntouched
    /\ AvailabilityUntouched
    /\ AdminUntouched
    /\ RolesUntouched
    /\ auth = [isLoading |-> TRUE, user |-> FALSE, userRole |-> "null"]
    /\ location = "/"
    /\ navigated = "none"
    /\ toast = NoToast

\* All but the routes and the admin entry point.
entryFrame == <<seqVars, skillVars, portfolioVars, bankVars, availVars,
                profileVars, pricingVars, policyVars>>

RedirectStep == Redirect /\ UNCHANGED entryFrame

NextEntry ==
    \/ RedirectStep
    \/ \E p \in Pages : OpenPage(p) /\ UNCHANGED entryFrame
    \/ \E a \in AuthStates : SessionChange(a) /\ UNCHANGED entryFrame
    \/ \E email \in Emails, password \in Passwords :
         HandleLogin(email, password) /\ UNCHANGED entryFrame
    \/ HandleLogout /\ UNCHANGED entryFrame
    \/ \E ok \in BOOLEAN, a \in AuthStates :
         HandleSignUp(ok, a) /\ UNCHANGED entryFrame
    \/ Reload /\ UNCHANGED entryFrame

SpecEntry == InitEntry /\ [][NextEntry]_vars

\* An effect that has something to do runs.
SpecEntryLive == SpecEntry /\ WF_vars(RedirectStep)

(* -------------------------- Step5Availability -------------------------- *)

\* Step5Availability is what renderStep shows in session s.
Step5Mounted(s) == Render(s) = "onboarding" /\ currentStep[s] = 5

AvailRowsOf(id, d) ==
    {r \in creator_availability : r.creator_id = id /\ r.day_of_week = d}

\* The upsert of updateDay: the day's record after the change.
UpsertRequest(s, id, d, day) ==
    [session |-> s, op |-> "upsert", creator_id |-> id, day_of_week |-> d,
     start_time |-> day.start_time.hour, end_time |-> day.end_time.hour,
     is_available |-> day.is_available]

AvailRequest(s, id) ==
    [session |-> s, op |-> "fetch", creator_id |-> id, day_of_week |-> 0,
     start_time |-> 0, end_time |-> 0, is_available |-> FALSE]

\* The values a control of the day's row can hand to updateDay: the switch
\* gives the other flag, the From selector (shown for an available day) gives
\* another option.  The To selector calls updateDay the same way with
\* "end_time"; the creator leaves it where it is.
DayChanges(day) ==
    {[day EXCEPT !.is_available = ~day.is_available]}
    \cup (IF day.is_available
          THEN {[day EXCEPT !.start_time = ClientTime(h, FALSE)] :
                   h \in TimeOptions \ {day.start_time.hour}}
          ELSE {})

\* updateDay up to its await.
UpdateDay(s, d, updatedDay) ==
    /\ Step5Mounted(s)
    /\ BagCardinality(availRequests) < MaxAvailCalls
    /\ availability' = [availability EXCEPT ![s][d] = updatedDay]
    /\ availRequests' =
         availRequests (+) SetToBag({UpsertRequest(s, creatorId[s], d, updatedDay)})
    /\ UNCHANGED creator_availability
    /\ toast' = NoToast

\* gen_random_uuid(): an id no row of creator_availability has.
FreshAvailId == Cardinality(creator_availability) + 1

\* An upsert that does not name its conflict target: a plain insert.
UpsertRowInserting(req) ==
    creator_availability \cup
        {[id |-> FreshAvailId, creator_id |-> req.creator_id,
          day_of_week |-> req.day_of_week, start_time |-> req.start_time,
          end_time |-> req.end_time, is_available |-> req.is_available]}

\* .upsert(row, { onConflict: 'creator_id,day_of_week' }): the row of that
\* key is updated in place, or the row is inserted when there is none.
UpsertRow(req) ==
    IF AvailRowsOf(req.creator_id, req.day_of_week) # {}
    THEN {IF r.creator_id = req.creator_id /\ r.day_of_week = req.day_of_week
          THEN [r EXCEPT !.start_time = req.start_time,
                         !.end_time = req.end_time,
                         !.is_available = req.is_available]
          ELSE r : r \in creator_availability}
    ELSE creator_availability \cup
            {[id |-> FreshAvailId, creator_id |-> req.creator_id,
              day_of_week |-> req.day_of_week, start_time |-> req.start_time,
              end_time |-> req.end_time, is_available |-> req.is_available]}

\* Whether creator_availability answers the upsert with an error: the call
\* failed, or it names no profile.
AvailError(req, ok) == ~ok \/ req.creator_id = NoId

\* updateDay after its await: error -> toast.
UpsertReturn(req, ok) ==
    /\ req \in BagToSet(availRequests)
    /\ req.op = "upsert"
    /\ creator_availability' =
         IF AvailError(req, ok) THEN creator_availability ELSE UpsertRow(req)
    /\ availRequests' = availRequests (-) SetToBag({req})
    /\ toast' =
         IF AvailError(req, ok)
         THEN Toast("destructive", "Could not save availability.")
         ELSE NoToast
    /\ UNCHANGED availability

\* fetchAvailability returns: when rows came back, each day takes its row or
\* the default.
FetchAvailabilityReturn(req, ok) ==
    /\ req \in BagToSet(availRequests)
    /\ req.op = "fetch"
    /\ LET data == IF ok THEN {r \in creator_availability :
                                  r.creator_id = req.creator_id}
                   ELSE {}
           merged(d) ==
               IF \E r \in data : r.day_of_week = d
               THEN LET r == CHOOSE x \in data : x.day_of_week = d
                    IN  [start_time |-> ClientTime(r.start_time, TRUE),
                         end_time |-> ClientTime(r.end_time, TRUE),
                         is_available |-> r.is_available]
               ELSE DefaultDay(d)
       IN  availability' =
             IF data # {}
             THEN [availability EXCEPT ![req.session] = [d \in Days |-> merged(d)]]
             ELSE availability
    /\ availRequests' = availRequests (-) SetToBag({req})
    /\ toast' = NoToast
    /\ UNCHANGED creator_availability

\* The creator has a profile, with or without a saved working day; the
\* editing session shows step 5, where Step5Availability has just mounted and
\* its effect has called fetchAvailability.
InitAvailability ==
    /\ creator_profiles =
         {[id |-> 1, user_id |-> User,
           onboarding_step |-> 5, onboarding_completed |-> FALSE]}
    /\ isLoadingProfile = [s \in Sessions |-> s # Editor]
    /\ creatorProfile =
         [s \in Sessions |->
            IF s = Editor THEN [id |-> 1, onboarding_completed |-> FALSE] ELSE Null]
    /\ currentStep = [s \in Sessions |-> IF s = Editor THEN 5 ELSE 1]
    /\ creatorId = [s \in Sessions |-> IF s = Editor THEN 1 ELSE NoId]
    /\ isSubmitting = [s \in Sessions |-> FALSE]
    /\ requests = EmptyBag
    /\ creator_specializations = {}
    /\ selectedSkills = [s \in Sessions |-> << >>]
    /\ skillRequests = EmptyBag
    /\ PortfolioUntouched
    /\ BankingUntouched
    /\ PricingUntouched
    /\ ProfileUntouched
    /\ creator_availability \in
         {{}, {[id |-> 1, creator_id |-> 1, day_of_week |-> 1,
                start_time |-> 9, end_time |-> 18, is_available |-> TRUE]}}
    /\ availability = [s \in Sessions |-> [d \in Days |-> DefaultDay(d)]]
    /\ availRequests = SetToBag({AvailRequest(Editor, 1)})
    /\ SignedIn
    /\ toast = NoToast
    /\ AdminUntouched
    /\ RolesUntouched

NextAvailability ==
    \/ \E s \in Sessions, d \in Days :
         \E updatedDay \in DayChanges(availability[s][d]) :
            UpdateDay(s, d, updatedDay) /\ UNCHANGED <<seqVars, stepsButAvailability>>
    \/ \E req \in BagToSet(availRequests), ok \in BOOLEAN :
         UpsertReturn(req, ok) /\ UNCHANGED <<seqVars, stepsButAvailability>>
    \/ \E req \in BagToSet(availRequests), ok \in BOOLEAN :
         FetchAvailabilityReturn(req, ok)
         /\ UNCHANGED <<seqVars, stepsButAvailability>>

SpecAvailability == InitAvailability /\ [][NextAvailability]_vars

(* ---------------------------- Step6Banking ----------------------------- *)

\* What the creator may type into the form.
BankDetails == {"account A", "account B"}

\* Step6Banking is what renderStep shows in session s.
Step6Mounted(s) == Render(s) = "onboarding" /\ currentStep[s] = LastStep

BankRequest(s, op, id, details) ==
    [session |-> s, op |-> op, creator_id |-> id, details |-> details,
     live |-> TRUE]

BankRowsOf(id) == {r \in creator_banking : r.creator_id = id}

SavesRunning ==
    BagCardinality(bankRequests) -
        BagCardinality([r \in {q \in BagToSet(bankRequests) : q.op = "fetch"}
                          |-> bankRequests[r]])

\* The requests of the Step6Banking of session s lose their component.
OrphanBank(bag, s) ==
    LET all == BagToSet(bag)
        orphaned(r) == IF r.session = s THEN [r EXCEPT !.live = FALSE] ELSE r
    IN  [q \in {orphaned(r) : r \in all} |->
            LET pre == {r \in all : orphaned(r) = q}
            IN  IF Cardinality(pre) = 1
                THEN bag[CHOOSE r \in pre : TRUE]
                ELSE bag[q] + bag[[q EXCEPT !.live = TRUE]]]

\* handleChange
EditBanking(s, details) ==
    /\ Step6Mounted(s)
    /\ formData[s] # details
    /\ formData' = [formData EXCEPT ![s] = details]
    /\ UNCHANGED <<creator_banking, isSaving, bankRequests>>
    /\ toast' = NoToast

\* handleSave up to its first await (the button is disabled while isSaving):
\* the select that looks for an existing row.
HandleSave(s) ==
    /\ Step6Mounted(s)
    /\ ~isSaving[s]
    /\ SavesRunning < MaxBankCalls
    /\ isSaving' = [isSaving EXCEPT ![s] = TRUE]
    /\ bankRequests' =
         bankRequests (+)
            SetToBag({BankRequest(s, "check", creatorId[s], formData[s])})
    /\ UNCHANGED <<creator_banking, formData>>
    /\ toast' = NoToast

\* The select of handleSave returns (its error is not read): update when a
\* row was found, insert otherwise.
CheckReturn(req, ok) ==
    /\ req \in BagToSet(bankRequests)
    /\ req.op = "check"
    /\ LET existing == ok /\ BankRowsOf(req.creator_id) # {}
       IN  bankRequests' =
             (bankRequests (-) SetToBag({req})) (+)
                SetToBag({[req EXCEPT !.op = IF existing THEN "update" ELSE "insert"]})
    /\ UNCHANGED <<creator_banking, formData, isSaving>>
    /\ toast' = NoToast

\* A table whose creator_id column is not UNIQUE.
BankErrorWithoutUnique(req, ok) ==
    \/ ~ok
    \/ req.op = "insert" /\ req.creator_id = NoId

\* Whether creator_banking answers the write with an error: the call failed,
\* or the insert names no profile or breaks UNIQUE(creator_id).
BankError(req, ok) ==
    \/ ~ok
    \/ /\ req.op = "insert"
       /\ (req.creator_id = NoId \/ BankRowsOf(req.creator_id) # {})

\* WriteReturn that returns early on an error, before setIsSaving(false).
WriteReturnLeavingOnError(req, ok) ==
    /\ req \in BagToSet(bankRequests)
    /\ req.op \in {"update", "insert"}
    /\ creator_banking' =
         IF BankError(req, ok) THEN creator_banking
         ELSE IF req.op = "insert"
         THEN creator_banking \cup
                 {[creator_id |-> req.creator_id, details |-> req.details]}
         ELSE {IF r.creator_id = req.creator_id
               THEN [r EXCEPT !.details = req.details] ELSE r :
                  r \in creator_banking}
    /\ isSaving' =
         IF req.live /\ ~BankError(req, ok)
         THEN [isSaving EXCEPT ![req.session] = FALSE] ELSE isSaving
    /\ bankRequests' = bankRequests (-) SetToBag({req})
    /\ UNCHANGED formData
    /\ toast' =
         IF BankError(req, ok)
         THEN Toast("destructive", "Could not save banking details.")
         ELSE IF req.op = "update" THEN Toast("default", "Banking details updated.")
         ELSE Toast("default", "Banking details saved.")

\* The update or insert of handleSave returns: a toast, setIsSaving(false).
WriteReturn(req, ok) ==
    /\ req \in BagToSet(bankRequests)
    /\ req.op \in {"update", "insert"}
    /\ creator_banking' =
         IF BankError(req, ok) THEN creator_banking
         ELSE IF req.op = "insert"
         THEN creator_banking \cup
                 {[creator_id |-> req.creator_id, details |-> req.details]}
         ELSE {IF r.creator_id = req.creator_id
               THEN [r EXCEPT !.details = req.details] ELSE r :
                  r \in creator_banking}
    /\ isSaving' =
         IF req.live THEN [isSaving EXCEPT ![req.session] = FALSE] ELSE isSaving
    /\ bankRequests' = bankRequests (-) SetToBag({req})
    /\ UNCHANGED formData
    /\ toast' =
         IF BankError(req, ok)
         THEN Toast("destructive", "Could not save banking details.")
         ELSE IF req.op = "update" THEN Toast("default", "Banking details updated.")
         ELSE Toast("default", "Banking details saved.")

\* fetchBanking returns: a row found fills the form.
FetchBankingReturn(req, ok) ==
    /\ req \in BagToSet(bankRequests)
    /\ req.op = "fetch"
    /\ formData' =
         IF ok /\ req.live /\ BankRowsOf(req.creator_id) # {}
         THEN [formData EXCEPT ![req.session] =
                 (CHOOSE r \in BankRowsOf(req.creator_id) : TRUE).details]
         ELSE formData
    /\ bankRequests' = bankRequests (-) SetToBag({req})
    /\ UNCHANGED <<creator_banking, isSaving>>
    /\ toast' = NoToast

\* What a step of the sequencer of session s does to its Step6Banking: the
\* component mounts with an empty form when step 6 comes to be shown and is
\* dropped when it ceases to be; its effect calls fetchBanking at the mount,
\* and again when creatorId changes, if there is a creatorId.
BankingFollows(s) ==
    LET was == Step6Mounted(s)
        is == Step6Mounted(s)'
        fetch == IF creatorId'[s] # NoId
                 THEN SetToBag({BankRequest(s, "fetch", creatorId'[s], EmptyForm)})
                 ELSE EmptyBag
    IN  IF was # is
        THEN /\ formData' = [formData EXCEPT ![s] = EmptyForm]
             /\ isSaving' = [isSaving EXCEPT ![s] = FALSE]
             /\ bankRequests' =
                  IF is THEN bankRequests (+) fetch
                  ELSE OrphanBank(bankRequests, s)
             /\ UNCHANGED creator_banking
        ELSE IF is /\ creatorId'[s] # creatorId[s]
        THEN /\ bankRequests' = bankRequests (+) fetch
             /\ UNCHANGED <<creator_banking, formData, isSaving>>
        ELSE UNCHANGED bankVars

\* The creator has reached the last step and has it open in every session:
\* each Step6Banking has mounted and called fetchBanking; no details are
\* saved.
InitBankRace ==
    /\ creator_profiles =
         {[id |-> 1, user_id |-> User,
           onboarding_step |-> LastStep, onboarding_completed |-> FALSE]}
    /\ isLoadingProfile = [s \in Sessions |-> FALSE]
    /\ creatorProfile =
         [s \in Sessions |-> [id |-> 1, onboarding_completed |-> FALSE]]
    /\ currentStep = [s \in Sessions |-> LastStep]
    /\ creatorId = [s \in Sessions |-> 1]
    /\ isSubmitting = [s \in Sessions |-> FALSE]
    /\ requests = EmptyBag
    /\ creator_specializations = {}
    /\ selectedSkills = [s \in Sessions |-> << >>]
    /\ skillRequests = EmptyBag
    /\ PortfolioUntouched
    /\ PricingUntouched
    /\ ProfileUntouched
    /\ AvailabilityUntouched
    /\ AdminUntouched
    /\ RolesUntouched
    /\ SignedIn
    /\ creator_banking = {}
    /\ formData = [s \in Sessions |-> EmptyForm]
    /\ isSaving = [s \in Sessions |-> FALSE]
    /\ bankRequests =
         [r \in {BankRequest(s, "fetch", 1, EmptyForm) : s \in Sessions} |-> 1]
    /\ toast = NoToast

\* Step6Banking in every session, the saves of the sessions interleaving.
NextBankRace ==
    \/ \E s \in Sessions, details \in BankDetails :
         EditBanking(s, details) /\ UNCHANGED <<seqVars, stepsButBanking>>
    \/ \E s \in Sessions :
         HandleSave(s) /\ UNCHANGED <<seqVars, stepsButBanking>>
    \/ \E req \in BagToSet(bankRequests), ok \in BOOLEAN :
         CheckReturn(req, ok) /\ UNCHANGED <<seqVars, stepsButBanking>>
    \/ \E req \in BagToSet(bankRequests), ok \in BOOLEAN :
         WriteReturn(req, ok) /\ UNCHANGED <<seqVars, stepsButBanking>>
    \/ \E req \in BagToSet(bankRequests), ok \in BOOLEAN :
         FetchBankingReturn(req, ok) /\ UNCHANGED <<seqVars, stepsButBanking>>

SpecBankRace == InitBankRace /\ [][NextBankRace]_vars

(* -------------------------- row-level policies ------------------------- *)

\* The values of the app_role enum.
AppRoles == {"customer", "team", "admin"}

\* public.has_role(_user_id, _role)
has_role(_user_id, _role) ==
    \E r \in user_roles : r.user_id = _user_id /\ r.role = _role

\* "Users can insert their own role during signup": WITH CHECK (auth.uid() =
\* user_id).
UserRolesInsertCheck(uid, row) == uid = row.user_id

\* "Creators can insert their own profile": WITH CHECK (auth.uid() = user_id).
CreatorProfilesInsertCheck(uid, row) == uid = row.user_id

\* SELECT id FROM public.creator_profiles WHERE user_id = auth.uid()
OwnProfileIds(uid) == {r.id : r \in RowsOf(uid)}

\* "Creators can manage their banking details": FOR ALL USING (creator_id IN
\* (the ids of the profiles of auth.uid())); with no WITH CHECK the same
\* expression is the check of an insert.
BankingManageUsing(uid, row) == row.creator_id \in OwnProfileIds(uid)

\* "Admins can view banking details": FOR SELECT USING (has_role(auth.uid(),
\* 'admin')).
BankingAdminUsing(uid, row) == has_role(uid, "admin")

\* The rows a select of creator_banking returns to uid: permissive policies
\* are joined by OR.
ReadableBanking(uid) ==
    {row \in creator_banking :
        BankingManageUsing(uid, row) \/ BankingAdminUsing(uid, row)}

\* The id the table gives to the profile of an identity.
ProfileIdOf(uid) == IF uid = User THEN 1 ELSE 2

\* uid sends insert into user_roles (user_id, role) with their own session.
InsertRole(uid, target, role) ==
    /\ user_roles' =
         IF UserRolesInsertCheck(uid, [user_id |-> target, role |-> role])
         THEN user_roles \cup {[user_id |-> target, role |-> role]}
         ELSE user_roles
    /\ UNCHANGED <<creator_profiles, creator_banking>>

\* uid sends insert into creator_profiles (user_id); UNIQUE(user_id).
InsertProfileAs(uid, target) ==
    /\ creator_profiles' =
         IF CreatorProfilesInsertCheck(uid, [user_id |-> target])
            /\ RowsOf(target) = {}
         THEN creator_profiles \cup
                 {[id |-> ProfileIdOf(target), user_id |-> target,
                   onboarding_step |-> DefaultStep, onboarding_completed |-> FALSE]}
         ELSE creator_profiles
    /\ UNCHANGED <<user_roles, creator_banking>>

\* uid saves banking details for the creator profile id: the insert, or the
\* update of the row that is there.
WriteBankingAs(uid, id, details) ==
    LET row == [creator_id |-> id, details |-> details]
    IN  /\ creator_banking' =
             IF ~BankingManageUsing(uid, row) THEN creator_banking
             ELSE {r \in creator_banking : r.creator_id # id} \cup {row}
        /\ UNCHANGED <<user_roles, creator_profiles>>

\* The creator has a profile, the customer has none; no details are saved.
InitPolicies ==
    /\ creator_profiles =
         {[id |-> 1, user_id |-> User,
           onboarding_step |-> LastStep, onboarding_completed |-> FALSE]}
    /\ isLoadingProfile = [s \in Sessions |-> TRUE]
    /\ creatorProfile = [s \in Sessions |-> Null]
    /\ currentStep = [s \in Sessions |-> 1]
    /\ creatorId = [s \in Sessions |-> NoId]
    /\ isSubmitting = [s \in Sessions |-> FALSE]
    /\ requests = EmptyBag
    /\ StepsUntouched
    /\ toast = NoToast

\* What lies outside the tables the policies guard.
policyFrame == <<isLoadingProfile, creatorProfile, currentStep, creatorId,
                 isSubmitting, requests, skillVars, portfolioVars, formData,
                 isSaving, bankRequests, availVars, routeVars, profileVars,
                 pricingVars, adminVars, toast>>

\* The requests the signed-in identities can send to the API.
NextPolicies ==
    \/ \E uid \in Users, target \in Users, role \in AppRoles :
         InsertRole(uid, target, role) /\ UNCHANGED policyFrame
    \/ \E uid \in Users, target \in Users :
         InsertProfileAs(uid, target) /\ UNCHANGED policyFrame
    \/ \E uid \in Users, id \in {1, 2}, details \in BankDetails :
         WriteBankingAs(uid, id, details) /\ UNCHANGED policyFrame

SpecPolicies == InitPolicies /\ [][NextPolicies]_vars

(* ----------------------------- Step4Pricing ---------------------------- *)

\* Step4Pricing is what renderStep shows in session s.
Step4Mounted(s) == Render(s) = "onboarding" /\ currentStep[s] = 4

\* What the creator types into the name, the hours and the price of a
\* package, and into the field of a new include.  The creator fills the
\* fields in, from the first to the last, and does not clear them.
PackageName == "Basic"
HoursRange == "2-3"
Price == 1200
IncludeText == "x"

\* The places of the list the creator uses: a first package and a second.
PackageSlots == {1, 2}

\* The ids gen_random_uuid() gives to the rows of creator_pricing.
PricingIds == {1, 2}

\* DEFAULT_PACKAGE: a package with no id; description is left out.
DefaultPackage ==
    [id |-> NoId, package_name |-> "", hours_range |-> "", price |-> 0,
     includes |-> << >>]

\* A row as an element of packages: the fields the component reads.
AsPackage(row) ==
    [id |-> row.id, package_name |-> row.package_name,
     hours_range |-> row.hours_range, price |-> row.price,
     includes |-> row.includes]

\* A handler of Step4Pricing waiting on a call, with what its code after the
\* await reads: the index and the packages of the render that got the click.
PriceRequest(s, op, index, pkg, list) ==
    [session |-> s, op |-> op, index |-> index, pkg |-> pkg, list |-> list,
     creator_id |-> creatorId[s],
     item |-> IF op = "insert" THEN priced + 1 ELSE 0]

PriceCalls == BagCardinality(priceRequests)

PricingRowsOf(id) == {r \in creator_pricing : r.creator_id = id}

\* The rows in an order .order("price") can return them in.
RECURSIVE ByPrice(_)
ByPrice(rows) ==
    IF rows = {} THEN {<< >>}
    ELSE LET least == {r \in rows : \A q \in rows : r.price <= q.price}
         IN  UNION {{<<x>> \o rest : rest \in ByPrice(rows \ {x})} : x \in least}

\* packages.filter((_, i) => i !== index)
WithoutIndex(list, index) ==
    [i \in 1..(Len(list) - (IF index \in DOMAIN list THEN 1 ELSE 0)) |->
        IF i < index THEN list[i] ELSE list[i + 1]]

\* No handler that holds the packages of an earlier render is waiting.
NoClosureWaiting(s) ==
    \A req \in BagToSet(priceRequests) :
        req.session = s => req.op \in {"fetch", "update"}

\* addPackage
AddPackage(s) ==
    /\ Step4Mounted(s)
    /\ Len(packages[s]) + 1 \in PackageSlots
    /\ packages' = [packages EXCEPT ![s] = Append(@, DefaultPackage)]
    /\ UNCHANGED <<creator_pricing, priceRequests, priced>>
    /\ toast' = NoToast

\* updatePackage(index, field, value)
UpdatePackage(s, index, field, value) ==
    /\ Step4Mounted(s)
    /\ index \in DOMAIN packages[s]
    /\ packages[s][index][field] # value
    /\ packages' = [packages EXCEPT ![s][index][field] = value]
    /\ UNCHANGED <<creator_pricing, priceRequests, priced>>
    /\ toast' = NoToast

\* addInclude(index), the creator having typed a text into the field of a
\* package that includes nothing yet.  (The includes are changed in the
\* package object itself, which the waiting handlers share: the creator
\* changes them while none holds it.)
AddInclude(s, index) ==
    /\ Step4Mounted(s)
    /\ index \in DOMAIN packages[s]
    /\ NoClosureWaiting(s)
    /\ packages[s][index].includes = << >>
    /\ packages' = [packages EXCEPT ![s][index].includes = Append(@, IncludeText)]
    /\ UNCHANGED <<creator_pricing, priceRequests, priced>>
    /\ toast' = NoToast

\* removeInclude(pkgIndex, includeIndex)
RemoveInclude(s, pkgIndex, includeIndex) ==
    /\ Step4Mounted(s)
    /\ pkgIndex \in DOMAIN packages[s]
    /\ NoClosureWaiting(s)
    /\ includeIndex \in DOMAIN packages[s][pkgIndex].includes
    /\ packages' =
         [packages EXCEPT ![s][pkgIndex].includes = WithoutIndex(@, includeIndex)]
    /\ UNCHANGED <<creator_pricing, priceRequests, priced>>
    /\ toast' = NoToast

\* removePackage(index) up to its await (the button is shown when there is
\* more than one package): a saved package is deleted first.
RemovePackage(s, index) ==
    /\ Step4Mounted(s)
    /\ index \in DOMAIN packages[s]
    /\ Len(packages[s]) > 1
    /\ IF packages[s][index].id # NoId
       THEN /\ PriceCalls < MaxPriceCalls
            /\ priceRequests' =
                 priceRequests (+)
                    SetToBag({PriceRequest(s, "delete", index, packages[s][index],
                                           packages[s])})
            /\ UNCHANGED packages
       ELSE /\ packages' = [packages EXCEPT ![s] = WithoutIndex(@, index)]
            /\ UNCHANGED priceRequests
    /\ UNCHANGED <<creator_pricing, priced>>
    /\ toast' = NoToast

\* The delete of removePackage returns (its error is not read):
\* setPackages(packages.filter(...)) on the packages the handler holds.
DeletePackageReturn(req, ok) ==
    /\ req \in BagToSet(priceRequests)
    /\ req.op = "delete"
    /\ creator_pricing' =
         IF ok THEN {r \in creator_pricing : r.id # req.pkg.id} ELSE creator_pricing
    /\ packages' = [packages EXCEPT ![req.session] = WithoutIndex(req.list, req.index)]
    /\ priceRequests' = priceRequests (-) SetToBag({req})
    /\ UNCHANGED priced
    /\ toast' = NoToast

\* The test savePackage makes before it writes.
Complete(pkg) == pkg.package_name # "" /\ pkg.hours_range # "" /\ pkg.price > 0

\* savePackage without its test of the fields.
SavePackageUnchecked(s, index) ==
    /\ Step4Mounted(s)
    /\ index \in DOMAIN packages[s]
    /\ LET pkg == packages[s][index]
       IN  /\ PriceCalls < MaxPriceCalls
           /\ pkg.id = NoId => priced + 1 \in PricingIds
           /\ priceRequests' =
                priceRequests (+)
                   SetToBag({IF pkg.id # NoId
                             THEN PriceRequest(s, "update", 0, pkg, << >>)
                             ELSE PriceRequest(s, "insert", index, pkg,
                                               packages[s])})
           /\ priced' = IF pkg.id # NoId THEN priced ELSE priced + 1
           /\ toast' = NoToast
    /\ UNCHANGED <<creator_pricing, packages>>

\* savePackage(index) up to its await: an incomplete package gives a toast
\* and no call; a package with an id is updated, one without is inserted.
\* (item is the id gen_random_uuid() gives the row of an insert.)
SavePackage(s, index) ==
    /\ Step4Mounted(s)
    /\ index \in DOMAIN packages[s]
    /\ LET pkg == packages[s][index]
       IN  IF ~Complete(pkg)
           THEN /\ UNCHANGED <<priceRequests, priced>>
                /\ toast' = Toast("destructive",
                                  "Please fill in package name, hours, and price.")
           ELSE /\ PriceCalls < MaxPriceCalls
                /\ pkg.id = NoId => priced + 1 \in PricingIds
                /\ priceRequests' =
                     priceRequests (+)
                        SetToBag({IF pkg.id # NoId
                                  THEN PriceRequest(s, "update", 0, pkg, << >>)
                                  ELSE PriceRequest(s, "insert", index, pkg,
                                                    packages[s])})
                /\ priced' = IF pkg.id # NoId THEN priced ELSE priced + 1
                /\ toast' = NoToast
    /\ UNCHANGED <<creator_pricing, packages>>

\* The row an insert of savePackage creates.
PricingRow(req) ==
    [id |-> req.item, creator_id |-> req.creator_id,
     package_name |-> req.pkg.package_name, hours_range |-> req.pkg.hours_range,
     price |-> req.pkg.price, includes |-> req.pkg.includes]

\* The update or insert of savePackage returns; the result of the update is
\* not read, data of the insert replaces the package in the packages the
\* handler holds; then the toast.
SavePackageReturn(req, ok) ==
    /\ req \in BagToSet(priceRequests)
    /\ req.op \in {"update", "insert"}
    /\ IF req.op = "update"
       THEN /\ creator_pricing' =
                 IF ok
                 THEN {IF r.id = req.pkg.id
                       THEN [r EXCEPT !.package_name = req.pkg.package_name,
                                      !.hours_range = req.pkg.hours_range,
                                      !.price = req.pkg.price,
                                      !.includes = req.pkg.includes]
                       ELSE r : r \in creator_pricing}
                 ELSE creator_pricing
            /\ UNCHANGED packages
       ELSE IF ok /\ req.creator_id # NoId
       THEN /\ creator_pricing' = creator_pricing \cup {PricingRow(req)}
            /\ packages' =
                 [packages EXCEPT ![req.session] =
                     [req.list EXCEPT ![req.index] = AsPackage(PricingRow(req))]]
       ELSE UNCHANGED <<creator_pricing, packages>>
    /\ priceRequests' = priceRequests (-) SetToBag({req})
    /\ UNCHANGED priced
    /\ toast' = Toast("default", "Your pricing package has been saved.")

\* fetchPricing returns: the rows, or one empty package when there are none.
FetchPricingReturn(req, ok, data) ==
    /\ req \in BagToSet(priceRequests)
    /\ req.op = "fetch"
    /\ packages' =
         [packages EXCEPT ![req.session] =
             IF ok /\ Len(data) > 0
             THEN [i \in DOMAIN data |-> AsPackage(data[i])]
             ELSE <<DefaultPackage>>]
    /\ priceRequests' = priceRequests (-) SetToBag({req})
    /\ UNCHANGED <<creator_pricing, priced>>
    /\ toast' = NoToast

\* The creator has a profile and no package saved; the editing session shows
\* step 4, where Step4Pricing has just mounted and its effect has called
\* fetchPricing.
InitPricing ==
    /\ creator_profiles =
         {[id |-> 1, user_id |-> User,
           onboarding_step |-> 4, onboarding_completed |-> FALSE]}
    /\ isLoadingProfile = [s \in Sessions |-> s # Editor]
    /\ creatorProfile =
         [s \in Sessions |->
            IF s = Editor THEN [id |-> 1, onboarding_completed |-> FALSE] ELSE Null]
    /\ currentStep = [s \in Sessions |-> IF s = Editor THEN 4 ELSE 1]
    /\ creatorId = [s \in Sessions |-> IF s = Editor THEN 1 ELSE NoId]
    /\ isSubmitting = [s \in Sessions |-> FALSE]
    /\ requests = EmptyBag
    /\ creator_specializations = {}
    /\ selectedSkills = [s \in Sessions |-> << >>]
    /\ skillRequests = EmptyBag
    /\ PortfolioUntouched
    /\ BankingUntouched
    /\ AvailabilityUntouched
    /\ ProfileUntouched
    /\ creator_pricing = {}
    /\ packages = [s \in Sessions |-> << >>]
    /\ priceRequests =
         SetToBag({[session |-> Editor, op |-> "fetch", index |-> 0,
                    pkg |-> DefaultPackage, list |-> << >>, creator_id |-> 1,
                    item |-> 0]})
    /\ priced = 0
    /\ SignedIn
    /\ toast = NoToast
    /\ AdminUntouched
    /\ RolesUntouched

\* The creator at work: a package is filled in from its first field to its
\* last before another is added, and nothing is typed while a handler that
\* holds the packages is waiting; the buttons are clicked at any time.
Typing(index) ==
    /\ index \in DOMAIN packages[Editor]
    /\ NoClosureWaiting(Editor)

NextPricing ==
    \/ /\ \A i \in DOMAIN packages[Editor] : Complete(packages[Editor][i])
       /\ NoClosureWaiting(Editor)
       /\ AddPackage(Editor) /\ UNCHANGED <<seqVars, stepsButPricing>>
    \/ \E index \in PackageSlots :
         \/ /\ Typing(index)
            /\ UpdatePackage(Editor, index, "package_name", PackageName)
            /\ UNCHANGED <<seqVars, stepsButPricing>>
         \/ /\ Typing(index)
            /\ packages[Editor][index].package_name # ""
            /\ UpdatePackage(Editor, index, "hours_range", HoursRange)
            /\ UNCHANGED <<seqVars, stepsButPricing>>
         \/ /\ Typing(index)
            /\ packages[Editor][index].hours_range # ""
            /\ UpdatePackage(Editor, index, "price", Price)
            /\ UNCHANGED <<seqVars, stepsButPricing>>
    \/ \E index \in PackageSlots :
         AddInclude(Editor, index) /\ UNCHANGED <<seqVars, stepsButPricing>>
    \/ \E index \in PackageSlots, i \in {1} :
         RemoveInclude(Editor, index, i) /\ UNCHANGED <<seqVars, stepsButPricing>>
    \/ \E index \in PackageSlots :
         RemovePackage(Editor, index) /\ UNCHANGED <<seqVars, stepsButPricing>>
    \/ \E index \in PackageSlots :
         SavePackage(Editor, index) /\ UNCHANGED <<seqVars, stepsButPricing>>
    \/ \E req \in BagToSet(priceRequests), ok \in BOOLEAN :
         DeletePackageReturn(req, ok) /\ UNCHANGED <<seqVars, stepsButPricing>>
    \/ \E req \in BagToSet(priceRequests), ok \in BOOLEAN :
         SavePackageReturn(req, ok) /\ UNCHANGED <<seqVars, stepsButPricing>>
    \/ \E req \in BagToSet(priceRequests), ok \in BOOLEAN :
         \E data \in ByPrice(PricingRowsOf(req.creator_id)) :
            FetchPricingReturn(req, ok, data)
            /\ UNCHANGED <<seqVars, stepsButPricing>>

SpecPricing == InitPricing /\ [][NextPricing]_vars

(* ----------------------------- Step1Profile ---------------------------- *)

\* Step1Profile is what renderStep shows in session s.
Step1Mounted(s) == Render(s) = "onboarding" /\ currentStep[s] = 1

\* The values onChange can hand to handleChange while the creator types on:
\* the text of the field with one more character.
Keystroke(text) ==
    IF text = "" THEN {"a"} ELSE IF text = "a" THEN {"ab"} ELSE {}

\* A call on the creator's row: fields holds the <<column, value>> pairs an
\* update carries; a select carries none.
FieldRequest(s, op, id, fields) ==
    [session |-> s, op |-> op, id |-> id, fields |-> fields]

\* handleChange that saves the form as it stands after the change.
HandleChangeWholeForm(s, field, value) ==
    /\ Step1Mounted(s)
    /\ value # profileFormData[s][field]
    /\ profileFormData' = [profileFormData EXCEPT ![s][field] = value]
    /\ IF creatorId[s] # NoId
       THEN /\ BagCardinality(fieldRequests) < MaxFieldCalls
            /\ fieldRequests' =
                 fieldRequests (+)
                    SetToBag({FieldRequest(s, "update", creatorId[s],
                                {<<f, profileFormData'[s][f]>> : f \in Fields})})
       ELSE UNCHANGED fieldRequests
    /\ UNCHANGED creator_profile_fields
    /\ toast' = NoToast

\* handleChange: setFormData, then, with a creatorId, update({[field]: value})
\* whose result nothing waits for.
HandleChange(s, field, value) ==
    /\ Step1Mounted(s)
    /\ value # profileFormData[s][field]
    /\ profileFormData' = [profileFormData EXCEPT ![s][field] = value]
    /\ IF creatorId[s] # NoId
       THEN /\ BagCardinality(fieldRequests) < MaxFieldCalls
            /\ fieldRequests' =
                 fieldRequests (+)
                    SetToBag({FieldRequest(s, "update", creatorId[s],
                                           {<<field, value>>})})
       ELSE UNCHANGED fieldRequests
    /\ UNCHANGED creator_profile_fields
    /\ toast' = NoToast

\* .update(fields).eq("id", id): the columns named take the values carried.
UpdateColumns(fields) ==
    [f \in Fields |->
        IF \E p \in fields : p[1] = f
        THEN (CHOOSE p \in fields : p[1] = f)[2]
        ELSE creator_profile_fields[f]]

\* The update of handleChange is served; .then() has no handler.
FieldUpdateReturn(req, ok) ==
    /\ req \in BagToSet(fieldRequests)
    /\ req.op = "update"
    /\ creator_profile_fields' =
         IF ok /\ (\E r \in creator_profiles : r.id = req.id)
         THEN UpdateColumns(req.fields)
         ELSE creator_profile_fields
    /\ fieldRequests' = fieldRequests (-) SetToBag({req})
    /\ UNCHANGED profileFormData
    /\ toast' = NoToast

\* creatorData.bio || "": NULL becomes the empty text.
OrEmpty(v) == IF v = NullColumn THEN "" ELSE v

\* The select of fetchData on creator_profiles returns: a row found replaces
\* the form.
FetchDataReturn(req, ok) ==
    /\ req \in BagToSet(fieldRequests)
    /\ req.op = "fetch"
    /\ profileFormData' =
         IF ok /\ (\E r \in creator_profiles : r.id = req.id)
         THEN [profileFormData EXCEPT ![req.session] =
                 [f \in Fields |-> OrEmpty(creator_profile_fields[f])]]
         ELSE profileFormData
    /\ fieldRequests' = fieldRequests (-) SetToBag({req})
    /\ UNCHANGED creator_profile_fields
    /\ toast' = NoToast

\* What a step of the sequencer of session s does to its Step1Profile: the
\* effect runs fetchData again when creatorId changes, and with a creatorId
\* fetchData selects the creator's row.
ProfileFollows(s) ==
    IF Step1Mounted(s)' /\ creatorId'[s] # creatorId[s] /\ creatorId'[s] # NoId
    THEN /\ fieldRequests' =
              fieldRequests (+)
                 SetToBag({FieldRequest(s, "fetch", creatorId'[s], {})})
         /\ UNCHANGED <<creator_profile_fields, profileFormData>>
    ELSE UNCHANGED profileVars

\* The editing session shows step 1 with an empty form.  Either the creator
\* is new: no row, the insert of createCreatorProfile in flight; or the
\* creator comes back to a row with a bio: fetchData has sent its select.
InitProfile ==
    /\ \/ /\ creator_profiles = {}
          /\ creatorProfile = [s \in Sessions |-> Null]
          /\ creatorId = [s \in Sessions |-> NoId]
          /\ requests = SetToBag({InsertRequest(Editor)})
          /\ creator_profile_fields = NullColumns
          /\ fieldRequests = EmptyBag
       \/ /\ creator_profiles =
               {[id |-> 1, user_id |-> User,
                 onboarding_step |-> 1, onboarding_completed |-> FALSE]}
          /\ creatorProfile =
               [s \in Sessions |->
                  IF s = Editor THEN [id |-> 1, onboarding_completed |-> FALSE]
                  ELSE Null]
          /\ creatorId = [s \in Sessions |-> IF s = Editor THEN 1 ELSE NoId]
          /\ requests = EmptyBag
          /\ creator_profile_fields = [f \in Fields |->
                                         IF f = "bio" THEN "a" ELSE NullColumn]
          /\ fieldRequests = SetToBag({FieldRequest(Editor, "fetch", 1, {})})
    /\ isLoadingProfile = [s \in Sessions |-> s # Editor]
    /\ currentStep = [s \in Sessions |-> 1]
    /\ isSubmitting = [s \in Sessions |-> FALSE]
    /\ profileFormData = [s \in Sessions |-> EmptyProfileForm]
    /\ creator_specializations = {}
    /\ selectedSkills = [s \in Sessions |-> << >>]
    /\ skillRequests = EmptyBag
    /\ PortfolioUntouched
    /\ BankingUntouched
    /\ PricingUntouched
    /\ AvailabilityUntouched
    /\ SignedIn
    /\ toast = NoToast
    /\ AdminUntouched
    /\ RolesUntouched

\* The saves succeed: what the row holds after them is owed to their order
\* alone.
NextProfile ==
    \/ \E field \in Fields :
         \E value \in Keystroke(profileFormData[Editor][field]) :
            HandleChange(Editor, field, value)
         /\ UNCHANGED <<seqVars, stepsButProfile>>
    \/ \E req \in BagToSet(requests), ok \in BOOLEAN :
         InsertReturn(req, ok) /\ ProfileFollows(Editor)
         /\ UNCHANGED stepsButProfile
    \/ \E req \in BagToSet(fieldRequests) :
         FieldUpdateReturn(req, TRUE) /\ UNCHANGED <<seqVars, stepsButProfile>>
    \/ \E req \in BagToSet(fieldRequests), ok \in BOOLEAN :
         FetchDataReturn(req, ok) /\ UNCHANGED <<seqVars, stepsButProfile>>

SpecProfile == InitProfile /\ [][NextProfile]_vars

(* ------------------- the run of one new creator ------------------------- *)

\* The creator waits for every call to return before the next click.
Quiet == requests = EmptyBag /\ bankRequests = EmptyBag

\* One session of a new creator who goes forward only and saves no step data
\* but the banking details.
NextScenario ==
    \/ Quiet /\ Visit(Editor) /\ BankingFollows(Editor)
         /\ UNCHANGED stepsButBanking
    \/ \E ok \in BOOLEAN :
         FetchReturn(Editor, ok) /\ BankingFollows(Editor)
         /\ UNCHANGED stepsButBanking
    \/ \E req \in BagToSet(requests), ok \in BOOLEAN :
         InsertReturn(req, ok) /\ BankingFollows(Editor)
         /\ UNCHANGED stepsButBanking
    \/ Quiet /\ HandleNext(Editor) /\ BankingFollows(Editor)
         /\ UNCHANGED stepsButBanking
    \/ \E req \in BagToSet(requests), ok \in BOOLEAN :
         StepReturn(req, ok) /\ UNCHANGED stepVars
    \/ Quiet /\ HandleComplete(Editor) /\ UNCHANGED stepVars
    \/ \E req \in BagToSet(requests), ok \in BOOLEAN :
         CompleteReturn(req, ok) /\ BankingFollows(Editor)
         /\ UNCHANGED stepsButBanking
    \/ \E details \in BankDetails :
         Quiet /\ EditBanking(Editor, details)
         /\ UNCHANGED <<seqVars, stepsButBanking>>
    \/ Quiet /\ HandleSave(Editor)
         /\ UNCHANGED <<seqVars, stepsButBanking>>
    \/ \E req \in BagToSet(bankRequests), ok \in BOOLEAN :
         CheckReturn(req, ok) /\ UNCHANGED <<seqVars, stepsButBanking>>
    \/ \E req \in BagToSet(bankRequests), ok \in BOOLEAN :
         WriteReturn(req, ok) /\ UNCHANGED <<seqVars, stepsButBanking>>
    \/ \E req \in BagToSet(bankRequests), ok \in BOOLEAN :
         FetchBankingReturn(req, ok)
         /\ UNCHANGED <<seqVars, stepsButBanking>>

\* The other sessions are not opened.
InitScenario ==
    /\ creator_profiles = {}
    /\ isLoadingProfile = [s \in Sessions |-> TRUE]
    /\ creatorProfile = [s \in Sessions |-> Null]
    /\ currentStep = [s \in Sessions |-> 1]
    /\ creatorId = [s \in Sessions |-> NoId]
    /\ isSubmitting = [s \in Sessions |-> FALSE]
    /\ requests = EmptyBag
    /\ StepsUntouched
    /\ toast = NoToast

SpecScenario == InitScenario /\ [][NextScenario]_vars

\* Every call the creator's clicks sent is answered: the promise of a
\* supabase call settles, with data or with an error.
CompleteAnswered ==
    \E req \in BagToSet(requests), ok \in BOOLEAN :
        CompleteReturn(req, ok) /\ BankingFollows(Editor)
        /\ UNCHANGED stepsButBanking

CheckAnswered ==
    \E req \in BagToSet(bankRequests), ok \in BOOLEAN :
        CheckReturn(req, ok) /\ UNCHANGED <<seqVars, stepsButBanking>>

WriteAnswered ==
    \E req \in BagToSet(bankRequests), ok \in BOOLEAN :
        WriteReturn(req, ok) /\ UNCHANGED <<seqVars, stepsButBanking>>

SpecScenarioLive ==
    /\ InitScenario /\ [][NextScenario]_vars
    /\ WF_vars(CompleteAnswered)
    /\ WF_vars(CheckAnswered)
    /\ WF_vars(WriteAnswered)

(* ------------------------------ claims --------------------------------- *)

SameRow(r, q) == r.id = q.id

\* C1: the persisted onboarding_step of a profile never decreases, over any
\* sequence of advance, retreat and complete actions.
C1_StepNeverDecreases ==
    [][\A r \in creator_profiles : \A q \in creator_profiles' :
          SameRow(r, q) => q.onboarding_step >= r.onboarding_step]_vars

\* C2: once onboarding_completed is true in a row, no step changes its
\* onboarding_step.
C2_StepFrozenOnceCompleted ==
    [][\A r \in creator_profiles : \A q \in creator_profiles' :
          (SameRow(r, q) /\ r.onboarding_completed)
              => q.onboarding_step = r.onboarding_step]_vars

\* C3: onboarding_completed never returns to false, and a profile fetch that
\* returns a completed row renders the main dashboard, not the sequencer.
C3_CompletedStaysAndBypasses ==
    [][/\ \A r \in creator_profiles : \A q \in creator_profiles' :
             (SameRow(r, q) /\ r.onboarding_completed) => q.onboarding_completed
       /\ \A r \in creator_profiles : r.onboarding_completed =>
             \E q \in creator_profiles' : SameRow(r, q)
       /\ \A s \in Sessions :
             (/\ isLoadingProfile[s]
              /\ ~isLoadingProfile'[s]
              /\ creatorProfile'[s] # Null
              /\ \E r \in RowsOf(User) : r.onboarding_completed)
                 => Render(s)' = "main"]_vars

\* A session shows the main dashboard for a completed profile.
C3_Witness ==
    \E s \in Sessions :
        /\ Render(s) = "main"
        /\ \E r \in RowsOf(User) : r.onboarding_completed /\ r.onboarding_step = LastStep

\* C4: every advance from a step in 1..5 moves to the next step and issues a
\* write of onboarding_step = that step; from step 6 it changes nothing.
C4_AdvanceAlwaysWrites ==
    [][\A s \in Sessions : HandleNext(s) =>
          IF currentStep[s] < LastStep
          THEN /\ currentStep'[s] = currentStep[s] + 1
               /\ \E r \in BagToSet(requests') :
                     /\ r.op = "step"
                     /\ r.val = currentStep[s] + 1
                     /\ CopiesIn(r, requests') = CopiesIn(r, requests) + 1
          ELSE UNCHANGED seqVars]_vars

\* C5: retreat moves the local step from s in 2..6 to s-1, leaves step 1 as it
\* is, issues no request and leaves the persisted profile unchanged.
C5_RetreatIsLocal ==
    [][\A s \in Sessions : HandleBack(s) =>
          /\ currentStep'[s] =
                IF currentStep[s] \in 2..LastStep THEN currentStep[s] - 1
                ELSE currentStep[s]
          /\ requests' = requests
          /\ creator_profiles' = creator_profiles]_vars

\* A session went back: it shows a step below the persisted one with its
\* own profile id known and nothing in flight.
C5_Witness ==
    \E s \in Sessions : \E r \in RowsOf(User) :
        /\ Render(s) = "onboarding"
        /\ creatorId[s] = r.id
        /\ requests = EmptyBag
        /\ currentStep[s] < r.onboarding_step
        /\ \A o \in Sessions \ {s} : isLoadingProfile[o] /\ creatorProfile[o] = Null

\* The sequencer of session s mounts in this step.
Mounts(s) ==
    isLoadingProfile[s] /\ ~isLoadingProfile'[s] /\ Render(s)' = "onboarding"

PersistedStep == (MaybeSingle(RowsOf(User))).onboarding_step

C7_OneProfilePerIdentity ==
    [][/\ Cardinality(RowsOf(User)') <= 1
       /\ \A q \in creator_profiles' :
             (\A r \in creator_profiles : ~SameRow(r, q)) =>
                 /\ q.onboarding_step = 1
                 /\ q.onboarding_completed = FALSE
                 /\ q.user_id = User
       /\ \A req \in BagToSet(requests) :
             InsertReturn(req, TRUE) => Cardinality(RowsOf(User)') = 1]_vars

\* Two sessions mounted the sequencer without a profile and both inserts were
\* served: one session got the id, the other the rejection, one row exists.
C7_Witness ==
    /\ Cardinality(RowsOf(User)) = 1
    /\ requests = EmptyBag
    /\ \A s \in Sessions : Render(s) = "onboarding" /\ creatorProfile[s] = Null
    /\ \E s \in Sessions : creatorId[s] # NoId
    /\ \E s \in Sessions : creatorId[s] = NoId

\* Step 2 is shown in session s for a known profile, and the selection lists
\* what the table holds for it.
SkillsAgree(s) ==
    /\ Step2Mounted(s)
    /\ creatorId[s] # NoId
    /\ Range(selectedSkills[s]) = SkillsOf(creator_specializations, creatorId[s])

SkillState(s) == [rows |-> creator_specializations, sel |-> selectedSkills[s]]

ToggledTwice(s, c) ==
    ToggleOnce(ToggleOnce(SkillState(s), s, creatorId[s], c), s, creatorId[s], c)

\* S with the level of category c set to beginner.
LevelReset(S, c) ==
    {IF x.category = c THEN [x EXCEPT !.skill_level = "beginner"] ELSE x : x \in S}

RecordExists(id) == \E r \in creator_portfolio : r.id = id

\* The object of the item is resolvable through its public url.
ObjectExists(url) == SplitPath(url) \in storage

\* C10: after handleRemove of an uploaded item both its record and its stored
\* object are gone (one record fewer, the object no longer resolvable), and
\* at no point of the removal does one exist without the other.
C10_RemoveDeletesBoth ==
    \A job \in BagToSet(portfolioJobs) :
        job.kind = "remove" =>
            /\ RecordExists(job.item) <=> ObjectExists(job.url)
            /\ job.phase = "fetch" =>
                  ~RecordExists(job.item) /\ ~ObjectExists(job.url)

NoStepDataButBanking ==
    /\ creator_specializations = {}
    /\ creator_portfolio = {}
    /\ storage = {}

\* C8: in the run of a new creator (profile created, advances only, no step
\* data saved but the banking details, every call awaited) no advance, no
\* save of the banking details and no complete is blocked, a completed profile has onboarding_step = 6, the main
\* dashboard is rendered only for it, and a profile loaded after completion
\* renders the main dashboard, not the sequencer.
C8_ScenarioRunsToDashboard ==
    /\ NoStepDataButBanking
    /\ (Quiet /\ Render(Editor) = "onboarding" /\ currentStep[Editor] < LastStep)
          => ENABLED (HandleNext(Editor)
                        /\ currentStep'[Editor] = currentStep[Editor] + 1)
    /\ (Quiet /\ Step6Mounted(Editor) /\ creatorId[Editor] # NoId)
          => ENABLED (HandleComplete(Editor) /\ requests' # requests)
    /\ (Quiet /\ Step6Mounted(Editor)) => ENABLED HandleSave(Editor)
    /\ \A r \in creator_profiles :
          r.onboarding_completed => r.onboarding_step = LastStep
    /\ Render(Editor) = "main"
          => \E r \in RowsOf(User) : r.onboarding_completed
    /\ (/\ \E r \in RowsOf(User) : r.onboarding_completed
        /\ ~isLoadingProfile[Editor]
        /\ creatorProfile[Editor] # Null)
          => Render(Editor) = "main"

\* The run has ended: the profile is completed at step 6, banking details are
\* saved, no other step data exists and the main dashboard is shown.
C8_Witness ==
    /\ \E r \in RowsOf(User) : r.onboarding_completed /\ r.onboarding_step = LastStep
    /\ creator_banking # {}
    /\ NoStepDataButBanking
    /\ Render(Editor) = "main"
    /\ Quiet

\* C11: a served upsert leaves exactly one record for its (creator,
\* day_of_week), holding its start, end and flag; served again with the same
\* values it leaves the table as it is; and no state has two records of one
\* (creator, day_of_week).
C11_UpsertIdempotentPerDay ==
    /\ [](\A a, b \in creator_availability :
             (a.creator_id = b.creator_id /\ a.day_of_week = b.day_of_week)
                => a = b)
    /\ [][\A req \in BagToSet(availRequests) :
            (UpsertReturn(req, TRUE) /\ req.creator_id # NoId) =>
               /\ \E r \in creator_availability' :
                     /\ AvailRowsOf(req.creator_id, req.day_of_week)' = {r}
                     /\ r.start_time = req.start_time
                     /\ r.end_time = req.end_time
                     /\ r.is_available = req.is_available
               /\ (\E r \in creator_availability :
                      /\ r.creator_id = req.creator_id
                      /\ r.day_of_week = req.day_of_week
                      /\ r.start_time = req.start_time
                      /\ r.end_time = req.end_time
                      /\ r.is_available = req.is_available)
                    => creator_availability' = creator_availability]_vars

\* The record of a day already holds the values of an upsert that is still in
\* flight after two other changes of that day: the same (day, start, end,
\* flag) is about to be applied a second time.
C11_Witness ==
    \E req \in BagToSet(availRequests), r \in creator_availability :
        /\ req.op = "upsert"
        /\ r.id # 1
        /\ r.creator_id = req.creator_id
        /\ r.day_of_week = req.day_of_week
        /\ r.start_time = req.start_time
        /\ r.end_time = req.end_time
        /\ r.is_available = req.is_available
        /\ BagCardinality(availRequests) = 1

PortfolioOf(id) == {r \in creator_portfolio : r.creator_id = id}

\* C12: a creator never has more than 10 portfolio records.
C12_NeverMoreThanCap == Cardinality(PortfolioOf(1)) <= PortfolioCap

\* C12, its second half: a selection that would take the creator past 10
\* records starts no upload.
C12_SelectionPastCapUploadsNothing ==
    [][\A s \in Sessions, n \in 1..MaxBatch :
         (FileSelect(s, n) /\ Cardinality(PortfolioOf(1)) + n > PortfolioCap)
            => portfolioJobs' = portfolioJobs]_vars

\* C13: a call of the sequencer to creator_profiles that fails (the insert of
\* createCreatorProfile, the update of handleNext, the update of
\* handleComplete) shows a failure notification, and no success notification.
C13_FailuresAreNotified ==
    [][\A req \in BagToSet(requests) :
         (\/ InsertReturn(req, FALSE)
          \/ StepReturn(req, FALSE)
          \/ CompleteReturn(req, FALSE))
            => toast'.variant = "destructive"]_vars

\* The guard effect of dashboard d ran in the step.
GuardRan(d) ==
    \/ OpenDashboard(d)
    \/ location = d /\ auth' # auth

\* C14: whenever the guard of a dashboard runs with auth loading finished and
\* no session, or a session of another role than the dashboard expects (team
\* for the creator and team dashboards, customer for the influencer
\* dashboard), it navigates to the auth page of that dashboard; with a
\* session of the expected role, or while auth is loading, it does not
\* navigate; so no dashboard stays mounted under a finished auth state that
\* lacks the session or the role.
C14_GuardRedirects ==
    /\ [][\A d \in Dashboards :
            GuardRan(d) =>
               IF ~auth'.isLoading /\ (~auth'.user \/ auth'.userRole # ExpectedRole(d))
               THEN navigated' = AuthPage(d) /\ location' = AuthPage(d)
               ELSE navigated' = "none" /\ location' = d]_vars
    /\ [](\A d \in Dashboards :
             location = d =>
                \/ auth.isLoading
                \/ auth.user /\ auth.userRole = ExpectedRole(d))

\* The influencer dashboard has just sent a loaded team session to the
\* influencer auth page.
C14_Witness ==
    /\ navigated = "/influencer/auth"
    /\ location = "/influencer/auth"
    /\ auth = [isLoading |-> FALSE, user |-> TRUE, userRole |-> "team"]

\* C15: a failed update of handleNext leaves the step on the screen and the
\* persisted step as they are, and a profile fetched at a reload mounts the
\* sequencer at the persisted step.
C15_FailedAdvanceIsNotRolledBack ==
    [][/\ \A req \in BagToSet(requests) :
            StepReturn(req, FALSE) =>
               currentStep' = currentStep /\ creator_profiles' = creator_profiles
       /\ \A s \in Sessions :
            (/\ isLoadingProfile[s] /\ ~isLoadingProfile'[s]
             /\ creatorProfile'[s] # Null /\ Render(s)' = "onboarding")
               => \E r \in RowsOf(User) : currentStep'[s] = r.onboarding_step]_vars

\* Nothing is in flight and the sequencer, which knows its profile, shows the
\* step after the persisted one: an advance has failed.
C15_Witness ==
    /\ Quiet
    /\ Render(Editor) = "onboarding"
    /\ creatorId[Editor] # NoId
    /\ \E r \in RowsOf(User) : currentStep[Editor] = r.onboarding_step + 1

\* C16: when no request is in flight (and, the specification having no
\* failing call, none has failed) the persisted onboarding_step is not below
\* the step a sequencer displays.
C16_PointerNotBelowDisplayed ==
    (requests = EmptyBag /\ \A s \in Sessions : ~isLoadingProfile[s])
       => \A s \in Sessions, r \in RowsOf(User) :
             Render(s) = "onboarding" => r.onboarding_step >= currentStep[s]

\* C17: with the writes applied in issue order, a row with
\* onboarding_completed = true has onboarding_step = 6.
C17_CompletedImpliesLastStep ==
    \A r \in creator_profiles : r.onboarding_completed => r.onboarding_step = LastStep

\* C18: every handleComplete and every handleSave of Step6Banking is followed
\* by isSubmitting, respectively isSaving, being false again, whether its call
\* succeeds, fails or is skipped.
C18_ButtonsComeBack ==
    /\ isSubmitting[Editor] ~> ~isSubmitting[Editor]
    /\ isSaving[Editor] ~> ~isSaving[Editor]

\* A save has failed and the Save button is enabled again.
C18_Witness ==
    /\ Step6Mounted(Editor)
    /\ toast = Toast("destructive", "Could not save banking details.")
    /\ ~isSaving[Editor]
    /\ ~isSubmitting[Editor]

\* The fields of the form of session s that a step changes.
Changed(s) == {f \in Fields : profileFormData'[s][f] # profileFormData[s][f]}

\* A step in which the creator changes the form of session s (the form
\* changes and no call returns).
FieldChange(s) ==
    /\ Changed(s) # {}
    /\ BagCardinality(fieldRequests') >= BagCardinality(fieldRequests)

\* The step sends one update, carrying the changed field and nothing else.
SendsTheChange(s) ==
    \E r \in BagToSet(fieldRequests') :
        /\ fieldRequests' = fieldRequests (+) SetToBag({r})
        /\ r.op = "update"
        /\ r.fields = {<<f, profileFormData'[s][f]>> : f \in Changed(s)}

C20_DisplayOrderFollowsUploads ==
    \A a \in creator_portfolio, b \in creator_portfolio :
        a.id < b.id => a.display_order < b.display_order

\* The insert and update calls a step sends.
WritesSent ==
    {req \in BagToSet(priceRequests') :
        /\ req.op \in {"insert", "update"}
        /\ \/ req \notin BagToSet(priceRequests)
           \/ priceRequests'[req] > priceRequests[req]}

MissingFields ==
    Toast("destructive", "Please fill in package name, hours, and price.")

\* C21: a step sends an insert or update of creator_pricing only as the save
\* of a package of the list whose name and hours are not empty and whose
\* price is above 0, and it changes no package (so no edit sends one); the
\* save of any other package sends nothing and shows the notification
\* 'Missing fields'; the write of one package, when it is served, leaves the
\* rows of the other packages as they are.
C21_WritesOnlyOnSave ==
    [][/\ \A req \in WritesSent :
            /\ Complete(req.pkg)
            /\ \E index \in DOMAIN packages[req.session] :
                  packages[req.session][index] = req.pkg
            /\ packages' = packages
       /\ \A index \in PackageSlots :
            (SavePackage(Editor, index) /\ ~Complete(packages[Editor][index]))
               => priceRequests' = priceRequests /\ toast' = MissingFields
       /\ \A req \in BagToSet(priceRequests), ok \in BOOLEAN :
            SavePackageReturn(req, ok)
               => \A r \in creator_pricing : r.id # req.pkg.id => r \in creator_pricing'
      ]_vars

\* Two packages are saved, one of them a second time with another content,
\* and the latest save was of a complete package.
C21_Witness ==
    /\ toast = Toast("default", "Your pricing package has been saved.")
    /\ priceRequests = EmptyBag
    /\ \E r \in creator_pricing, q \in creator_pricing :
          r.id # q.id /\ r.includes # q.includes

\* C28: a package is inserted once: no save sends an insert for a place of
\* the list while an insert sent for that place is waiting (the later save
\* updates the row of the first).
C28_LaterSavesUpdate ==
    [][\A req \in WritesSent :
          req.op = "insert" =>
             ~ \E q \in BagToSet(priceRequests) :
                   q.op = "insert" /\ q.session = req.session /\ q.index = req.index
      ]_vars

\* C22: no step of the banking handleSave changes a row of creator_profiles;
\* no step of handleComplete changes creator_banking, and a served completion
\* sets onboarding_completed whatever creator_banking holds; the Complete
\* button works at step 6 with or without a banking row.
C22_SaveAndCompleteIndependent ==
    /\ [][/\ (\/ HandleSave(Editor)
              \/ \E req \in BagToSet(bankRequests), ok \in BOOLEAN :
                    CheckReturn(req, ok) \/ WriteReturn(req, ok))
             => creator_profiles' = creator_profiles
          /\ \A req \in BagToSet(requests), ok \in BOOLEAN :
                (HandleComplete(Editor) \/ CompleteReturn(req, ok))
                   => creator_banking' = creator_banking
          /\ \A req \in BagToSet(requests) :
                CompleteReturn(req, TRUE)
                   => \A r \in creator_profiles' :
                         r.id = req.id => r.onboarding_completed
         ]_vars
    /\ [](\A s \in {Editor} :
            (Step6Mounted(s) /\ ~isSubmitting[s] /\ Quiet)
               => ENABLED HandleComplete(s))

\* The onboarding is completed and no banking row was ever saved.
C22_Witness ==
    /\ creator_banking = {}
    /\ \E r \in creator_profiles : r.onboarding_completed
    /\ toast = Toast("default", "Your creator profile is now complete.")

\* The creator's row for a category, as a set of zero or more rows.
RowsFor(rows, id, c) == {r \in rows : r.creator_id = id /\ r.category = c}

\* A toggle whose call succeeded was decided on a selection that agrees with
\* the table: it inserts for an absent category, deletes for a present one.
Agrees(req) ==
    (req.op = "insert") <=>
        (RowsFor(creator_specializations, req.creator_id, req.category) = {})

\* The served write leaves every row but the one of its category as it was.
OtherRowsKept(req) ==
    {r \in creator_specializations :
        ~(r.creator_id = req.creator_id /\ r.category = req.category)}
    = {r \in creator_specializations' :
        ~(r.creator_id = req.creator_id /\ r.category = req.category)}

RowCount(rows, id) == Cardinality(SkillsOf(rows, id))

\* C23 as stated: at most one row per (creator, category), and every toggle
\* whose call succeeds changes the number of the creator's rows by exactly
\* one; updateSkillLevel never changes the number of rows.
C23_ToggleChangesByOne ==
    /\ [](\A r, q \in creator_specializations :
            (r.creator_id = q.creator_id /\ r.category = q.category) => r = q)
    /\ [][\A req \in BagToSet(skillRequests) :
            SkillReturn(req, TRUE) =>
                IF req.op = "insert"
                THEN RowCount(creator_specializations', req.creator_id)
                        = RowCount(creator_specializations, req.creator_id) + 1
                ELSE IF req.op = "delete"
                THEN RowCount(creator_specializations', req.creator_id)
                        = RowCount(creator_specializations, req.creator_id) - 1
                ELSE RowCount(creator_specializations', req.creator_id)
                        = RowCount(creator_specializations, req.creator_id)]_vars

\* C23 (amended): at most one row per (creator, category) in every reachable
\* state; a toggle changes the number of the creator's rows by exactly one
\* (insert for an absent category, delete for a present one) when its call
\* succeeds and its decision agrees with the table, and by none otherwise
\* (failed call, insert rejected by the uniqueness constraint, delete of a
\* row that is not there); updateSkillLevel changes at most the skill_level
\* of the existing row and never the number of rows; no write touches the
\* rows of another category.
C23_ToggleChangesByAtMostOne ==
    /\ [](\A r, q \in creator_specializations :
            (r.creator_id = q.creator_id /\ r.category = q.category) => r = q)
    /\ [][\A req \in BagToSet(skillRequests), ok \in BOOLEAN :
            SkillReturn(req, ok) =>
                LET before == RowCount(creator_specializations, req.creator_id)
                    after  == RowCount(creator_specializations', req.creator_id)
                IN  /\ OtherRowsKept(req)
                    /\ IF req.op = "update"
                       THEN /\ after = before
                            /\ \A r \in RowsFor(creator_specializations',
                                                 req.creator_id, req.category) :
                                  \E q \in RowsFor(creator_specializations,
                                                   req.creator_id, req.category) :
                                     r \in {q, [q EXCEPT !.skill_level = req.skill_level]}
                       ELSE IF ok /\ req.creator_id # NoId /\ Agrees(req)
                       THEN after = IF req.op = "insert" THEN before + 1
                                    ELSE before - 1
                       ELSE after = before]_vars

\* A category was toggled on and its level raised, nothing is in flight, and
\* the creator holds one row for each of the two categories.
C23_Witness ==
    /\ skillRequests = EmptyBag
    /\ \E r, q \in creator_specializations :
          /\ r.creator_id = q.creator_id
          /\ r.category # q.category
          /\ r.skill_level = "expert"
          /\ q.skill_level = "beginner"
    /\ Len(selectedSkills[Editor]) = 2

\* C24: handleLogin succeeds (welcome notification, move to the dashboard) if
\* and only if both values equal the hardcoded pair; on success the flag of
\* the provider and the sessionStorage item are set, on failure both stay as
\* they were; logout clears both; in every reachable state the flag is set
\* only if the item is.
C24_AdminEntryPoint ==
    /\ [](isAdminLoggedIn => adminSession = "true")
    /\ [][/\ \A email \in Emails, password \in Passwords :
               HandleLogin(email, password) =>
                  IF email = "admin@example.com" /\ password = "admin123"
                  THEN /\ isAdminLoggedIn' /\ adminSession' = "true"
                       /\ location' = "AdminDashboard"
                       /\ toast' = Toast("default", "You have successfully logged in.")
                  ELSE /\ isAdminLoggedIn' = isAdminLoggedIn
                       /\ adminSession' = adminSession
                       /\ location' = location
                       /\ loginError' = "Invalid credentials"
                       /\ toast' = NoToast
          /\ HandleLogout => ~isAdminLoggedIn' /\ adminSession' = NoItem]_vars

\* A login with the pair has succeeded, and a later login with other values
\* on the login page has failed and left the flag and the item set.
C24_Witness ==
    /\ isAdminLoggedIn
    /\ adminSession = "true"
    /\ loginError = "Invalid credentials"
    /\ location = "/admin/login"

\* C27: for every session state the guard of an auth or login page and the
\* guard of its dashboard never both navigate; the page a redirect arrives at
\* does not redirect under the same session state; and whenever a guard is
\* about to navigate the page shown comes to rest.
C27_NoRedirectLoop ==
    /\ [](\A a \in AuthStates, flag \in BOOLEAN :
            /\ \A p \in AuthPages :
                  PageGuard(p, a, flag) = "none"
                  \/ PageGuard(DashboardOf(p), a, flag) = "none"
            /\ PageGuard("/admin/login", a, flag) = "none"
               \/ PageGuard("AdminDashboard", a, flag) = "none")
    /\ [][RedirectStep =>
            PageGuard(location', auth', isAdminLoggedIn') = "none"]_vars
    /\ [](~Stable ~> Stable)

\* The admin dashboard was reloaded with the item set: its guard has sent the
\* tab to the login page, whose guard has sent it back.
C27_Witness ==
    /\ location = "AdminDashboard"
    /\ navigated = "AdminDashboard"
    /\ toast = NoToast
    /\ isAdminLoggedIn

\* The sign-up has navigated to the dashboard before the role was known and
\* the guard of the dashboard has sent the tab back to the auth page, where
\* it rests.
C27_SignUpWitness ==
    /\ location = "/creator/auth"
    /\ navigated = "/creator/auth"
    /\ auth = [isLoading |-> FALSE, user |-> TRUE, userRole |-> "null"]

\* C25: in every reachable state the local step of every session is in
\* 1..6, and so is every onboarding_step the application has persisted, also
\* when two clicks on Next are handled before a render.
C25_StepInRange ==
    /\ \A s \in Sessions : currentStep[s] \in 1..LastStep
    /\ \A r \in creator_profiles : r.onboarding_step \in 1..LastStep

\* Two clicks at step 5 have sent the last step twice, and the sequencer
\* shows the last step.
C25_Witness ==
    \E s \in Sessions, req \in BagToSet(requests) :
        /\ Render(s) = "onboarding"
        /\ currentStep[s] = LastStep
        /\ req.op = "step"
        /\ req.val = LastStep
        /\ requests[req] = 2

\* onComplete() has run in session s: the dashboard fetches the profile again
\* and the spinner replaces the sequencer.
Exits(s) == ~isLoadingProfile[s] /\ isLoadingProfile'[s]

\* C26: handleComplete calls onComplete only after an update that succeeded
\* and has set onboarding_completed; when the update answers with an error
\* the table is left as it was, the error is notified and the session keeps
\* showing the sequencer at the step it shows; when no profile id is known
\* handleComplete sends nothing and changes nothing.
C26_ExitOnlyAfterSuccess ==
    [][/\ \A req \in BagToSet(requests), ok \in BOOLEAN :
            CompleteReturn(req, ok) =>
               /\ Exits(req.session) =>
                     /\ ok
                     /\ \A r \in creator_profiles' :
                           r.id = req.id => r.onboarding_completed
               /\ ~ok =>
                     /\ creator_profiles' = creator_profiles
                     /\ ~Exits(req.session)
                     /\ isLoadingProfile' = isLoadingProfile
                     /\ creatorProfile' = creatorProfile
                     /\ currentStep' = currentStep
                     /\ toast' = Toast("destructive", "Could not complete onboarding.")
       /\ \A s \in Sessions :
            (HandleComplete(s) /\ creatorId[s] = NoId) =>
               /\ UNCHANGED <<seqVars, stepVars>>
               /\ Render(s) = "onboarding"
               /\ currentStep[s] = LastStep]_vars

\* The update of handleComplete has failed: the error is shown, no row is
\* completed and a session shows the last step of the sequencer.
C26_Witness ==
    /\ toast = Toast("destructive", "Could not complete onboarding.")
    /\ \A r \in creator_profiles : ~r.onboarding_completed
    /\ \E s \in Sessions :
          /\ Render(s) = "onboarding"
          /\ currentStep[s] = LastStep
          /\ ~isSubmitting[s]

\* A sequencer whose profile creation failed stands at the last step with no
\* profile id: Complete Setup has nothing to send.
C26_NoIdWitness ==
    \E s \in Sessions :
        /\ Render(s) = "onboarding"
        /\ currentStep[s] = LastStep
        /\ creatorId[s] = NoId
        /\ creator_profiles = {}
        /\ requests = EmptyBag

SaveFailed == Toast("destructive", "Could not save banking details.")

\* C29: in every reachable state a creator has at most one creator_banking
\* row; a save whose existence check found no row sends an insert and one
\* whose check found a row sends an update; a write that the table accepts
\* leaves the creator's one row holding the values of that save, and a write
\* it rejects, as the insert of the save that lost the race is, changes no
\* row and is notified as an error.
C29_OneBankingRow ==
    /\ [](\A r, q \in creator_banking : r.creator_id = q.creator_id => r = q)
    /\ [][/\ \A req \in BagToSet(bankRequests) :
               CheckReturn(req, TRUE) =>
                  \E w \in BagToSet(bankRequests') :
                     /\ w.session = req.session
                     /\ w.details = req.details
                     /\ w.op = IF BankRowsOf(req.creator_id) = {}
                               THEN "insert" ELSE "update"
          /\ \A req \in BagToSet(bankRequests), ok \in BOOLEAN :
               WriteReturn(req, ok) =>
                  IF ok /\ (req.op = "insert" <=> BankRowsOf(req.creator_id) = {})
                  THEN /\ BankRowsOf(req.creator_id)' =
                            {[creator_id |-> req.creator_id, details |-> req.details]}
                       /\ toast' # SaveFailed
                  ELSE /\ creator_banking' = creator_banking
                       /\ toast' = SaveFailed]_vars

\* Two sessions have saved different details at once: one row is stored, it
\* holds the details of the one session, the other session was told that its
\* save failed and still shows its own details.
C29_Witness ==
    /\ bankRequests = EmptyBag
    /\ toast = SaveFailed
    /\ \E s, t \in Sessions :
          /\ formData[s] # formData[t]
          /\ formData[t] # EmptyForm
          /\ creator_banking = {[creator_id |-> 1, details |-> formData[s]]}

\* C30: an identity that signed up as customer or team never satisfies
\* has_role(user, 'admin'), and the creator_banking rows it can read are
\* those of its own creator profile.
C30_NeverAdmin ==
    \A uid \in Users :
        /\ ~has_role(uid, "admin")
        /\ \A row \in ReadableBanking(uid) : row.creator_id \in OwnProfileIds(uid)

====
